---- MODULE Spec2Model ----
(***************************************************************************)
(* A model of the axvmconfig crate: the VM configuration schema            *)
(* (src/src/lib.rs), its enumerated code tables, its structural defaults   *)
(* and AxVMCrateConfig::from_toml, the TOML deserialiser derived by serde  *)
(* and serde_repr from the type declarations; the template builder         *)
(* (src/src/templates.rs) and the command-line tool (src/src/tool.rs).     *)
(*                                                                         *)
(* A TOML document is modelled as a syntax flag plus a map from field      *)
(* paths to TOML values; deserialisation is modelled field by field, as    *)
(* the derived visitors perform it.                                        *)
(***************************************************************************)
EXTENDS Integers, Sequences, FiniteSets, TLC

VARIABLES op, arg, ret, log, proc

vars == <<op, arg, ret, log, proc>>

(***************************************************************************)
(* Bounds of the model.                                                    *)
(***************************************************************************)
\* Integer inputs of the usize -> variant conversions range over 0..MaxCode.
\* 0x1E3 + 0x100 = 739 makes every defined code reappear once modulo 256.
MaxCode == 739
\* A document differs from a baseline document in at most MaxEdits fields.
MaxEdits == 1

(***************************************************************************)
(* Program constants.                                                      *)
(***************************************************************************)
\* #[repr(u8)]: the serde_repr enums are decoded through a u8.
U8Max == 255

(***************************************************************************)
(* Option<T> and Result<T, E> as sequences of length 0 or 1.               *)
(***************************************************************************)
None == <<>>
Some(x) == <<x>>

Ok(x) == [ok |-> TRUE, v |-> <<x>>, err |-> "None"]
Err(kind) == [ok |-> FALSE, v |-> <<>>, err |-> kind]

\* A diagnostic emitted through the log crate's warn! macro.
Warn(what) == [level |-> "warn", what |-> what]

(***************************************************************************)
(* VMType (lib.rs 19-49).                                                  *)
(***************************************************************************)
VMTypeVariants == {"VMTHostVM", "VMTRTOS", "VMTLinux"}

\* The discriminants of the enum declaration.
VMTypeDiscriminant(t) ==
    CASE t = "VMTHostVM" -> 0
      [] t = "VMTRTOS"   -> 1
      [] t = "VMTLinux"  -> 2

\* A VMType whose #[default] is its first variant.
VMType_default_mutHostVM == "VMTHostVM"

\* #[default] on VMTRTOS.
VMType_default == "VMTRTOS"

\* impl From<usize> for VMType: the variant and the diagnostics emitted.
VMType_from(value) ==
    CASE value = 0 -> [v |-> "VMTHostVM", log |-> <<>>]
      [] value = 1 -> [v |-> "VMTRTOS", log |-> <<>>]
      [] value = 2 -> [v |-> "VMTLinux", log |-> <<>>]
      [] OTHER     -> [v |-> VMType_default, log |-> <<Warn("UnknownVmType")>>]

\* impl From<VMType> for usize: `value as usize`.
usize_from_VMType(t) == VMTypeDiscriminant(t)

(***************************************************************************)
(* VmMemMappingType (lib.rs 51-66).                                        *)
(***************************************************************************)
VmMemMappingTypeVariants == {"MapAlloc", "MapIdentical"}

VmMemMappingTypeDiscriminant(m) ==
    CASE m = "MapAlloc"     -> 0
      [] m = "MapIdentical" -> 1

VmMemMappingType_default == "MapAlloc"

(***************************************************************************)
(* EmulatedDeviceType (lib.rs 93-207).                                     *)
(***************************************************************************)
EmulatedDeviceTypeVariants ==
    {"Dummy", "InterruptController", "Console", "IVCChannel",
     "GPPTRedistributor", "GPPTDistributor", "GPPTITS",
     "VirtioBlk", "VirtioNet", "VirtioConsole"}

\* The discriminants of the enum declaration (`v as usize`).
EmulatedDeviceTypeDiscriminant(v) ==
    CASE v = "Dummy"               -> 0     \* 0x0
      [] v = "InterruptController" -> 1     \* 0x1
      [] v = "Console"             -> 2     \* 0x2
      [] v = "IVCChannel"          -> 10    \* 0xA
      [] v = "GPPTRedistributor"   -> 32    \* 0x20
      [] v = "GPPTDistributor"     -> 33    \* 0x21
      [] v = "GPPTITS"             -> 34    \* 0x22
      [] v = "VirtioBlk"           -> 225   \* 0xE1
      [] v = "VirtioNet"           -> 226   \* 0xE2
      [] v = "VirtioConsole"       -> 227   \* 0xE3

EmulatedDeviceType_default == "Dummy"

\* A removable() that also lists the GPPT distributor.
removable_mutDistributor(v) ==
    v \in {"InterruptController", "GPPTRedistributor", "GPPTDistributor",
           "VirtioBlk", "VirtioNet", "VirtioConsole"}

\* EmulatedDeviceType::removable: the matches! pattern.
removable(v) ==
    v \in {"InterruptController", "GPPTRedistributor",
           "VirtioBlk", "VirtioNet", "VirtioConsole"}

\* A from_usize that swaps the two GPPT codes 0x20 and 0x21.
from_usize_mutSwapped(value) ==
    CASE value = 0   -> [v |-> "Dummy", log |-> <<>>]
      [] value = 1   -> [v |-> "InterruptController", log |-> <<>>]
      [] value = 2   -> [v |-> "Console", log |-> <<>>]
      [] value = 10  -> [v |-> "IVCChannel", log |-> <<>>]
      [] value = 32  -> [v |-> "GPPTDistributor", log |-> <<>>]
      [] value = 33  -> [v |-> "GPPTRedistributor", log |-> <<>>]
      [] value = 34  -> [v |-> "GPPTITS", log |-> <<>>]
      [] value = 225 -> [v |-> "VirtioBlk", log |-> <<>>]
      [] value = 226 -> [v |-> "VirtioNet", log |-> <<>>]
      [] value = 227 -> [v |-> "VirtioConsole", log |-> <<>>]
      [] OTHER       -> [v |-> "Dummy", log |-> <<Warn("UnknownEmuType")>>]

\* A from_usize that first narrows its argument to the enum's repr, u8.
from_usize_mutNarrowed(value) ==
    LET b == value % (U8Max + 1) IN
    CASE b = 0   -> [v |-> "Dummy", log |-> <<>>]
      [] b = 1   -> [v |-> "InterruptController", log |-> <<>>]
      [] b = 2   -> [v |-> "Console", log |-> <<>>]
      [] b = 10  -> [v |-> "IVCChannel", log |-> <<>>]
      [] b = 32  -> [v |-> "GPPTRedistributor", log |-> <<>>]
      [] b = 33  -> [v |-> "GPPTDistributor", log |-> <<>>]
      [] b = 34  -> [v |-> "GPPTITS", log |-> <<>>]
      [] b = 225 -> [v |-> "VirtioBlk", log |-> <<>>]
      [] b = 226 -> [v |-> "VirtioNet", log |-> <<>>]
      [] b = 227 -> [v |-> "VirtioConsole", log |-> <<>>]
      [] OTHER   -> [v |-> "Dummy", log |-> <<Warn("UnknownEmuType")>>]

\* EmulatedDeviceType::from_usize: the variant and the diagnostics emitted.
from_usize(value) ==
    CASE value = 0   -> [v |-> "Dummy", log |-> <<>>]
      [] value = 1   -> [v |-> "InterruptController", log |-> <<>>]
      [] value = 2   -> [v |-> "Console", log |-> <<>>]
      [] value = 10  -> [v |-> "IVCChannel", log |-> <<>>]
      [] value = 32  -> [v |-> "GPPTRedistributor", log |-> <<>>]
      [] value = 33  -> [v |-> "GPPTDistributor", log |-> <<>>]
      [] value = 34  -> [v |-> "GPPTITS", log |-> <<>>]
      [] value = 225 -> [v |-> "VirtioBlk", log |-> <<>>]
      [] value = 226 -> [v |-> "VirtioNet", log |-> <<>>]
      [] value = 227 -> [v |-> "VirtioConsole", log |-> <<>>]
      [] OTHER       -> [v |-> "Dummy", log |-> <<Warn("UnknownEmuType")>>]

(***************************************************************************)
(* TOML values, as the toml crate hands them to the serde visitors.        *)
(* A value carries its type tag and the payload of that type; Absent       *)
(* stands for a key the table does not hold.                               *)
(***************************************************************************)
TInt(n) == [t |-> "int", i |-> n, s |-> "", a |-> <<>>]
TStr(x) == [t |-> "str", i |-> 0, s |-> x, a |-> <<>>]
TArr(x) == [t |-> "arr", i |-> 0, s |-> "", a |-> x]
Absent  == [t |-> "absent", i |-> 0, s |-> "", a |-> <<>>]

\* The error of a failed deserialisation (toml::de::Error).
DeError == Err("TomlDeError")

(***************************************************************************)
(* serde's deserialisers of the primitive field types.                     *)
(***************************************************************************)
\* usize: a non-negative TOML integer (TOML integers are i64, so every
\* non-negative one fits a 64-bit usize).
De_usize(x) == IF x.t = "int" /\ x.i >= 0 THEN Ok(x.i) ELSE DeError

\* u8: an integer in 0..255; a larger one is rejected, not reduced.
De_u8(x) == IF x.t = "int" /\ x.i >= 0 /\ x.i <= U8Max THEN Ok(x.i) ELSE DeError

De_String(x) == IF x.t = "str" THEN Ok(x.s) ELSE DeError

\* An Option<T> that requires its key, as a field that is not an Option does.
De_Option_mutRequired(x, r) ==
    IF r.ok THEN Ok(Some(r.v[1])) ELSE DeError

\* Option<T> field: a missing key is None, a present one must decode as T.
\* r is the result of decoding x as T.
De_Option(x, r) ==
    IF x.t = "absent" THEN Ok(None)
    ELSE IF r.ok THEN Ok(Some(r.v[1])) ELSE DeError

\* Vec<T>: an array each of whose elements decodes as T, order kept.
\* rs[k] is the result of decoding the k-th element as T.
De_Vec(x, rs) ==
    IF x.t = "arr" /\ \A k \in 1..Len(x.a) : rs[k].ok
    THEN Ok([k \in 1..Len(x.a) |-> rs[k].v[1]])
    ELSE DeError

De_Vec_usize(x) == De_Vec(x, [k \in 1..Len(x.a) |-> De_usize(x.a[k])])

De_Option_usize(x) == De_Option(x, De_usize(x))
De_Option_String(x) == De_Option(x, De_String(x))
De_Option_Vec_usize(x) == De_Option(x, De_Vec_usize(x))

(***************************************************************************)
(* The deserialisers serde_repr derives (Deserialize_repr): the integer is *)
(* decoded as the repr type and matched against the discriminants; an      *)
(* integer that is no discriminant is an error ("invalid value"), since no *)
(* variant is marked #[serde(other)].                                      *)
(***************************************************************************)
De_VmMemMappingType(x) ==
    LET r == De_u8(x) IN
    IF ~r.ok THEN DeError
    ELSE IF \E m \in VmMemMappingTypeVariants : VmMemMappingTypeDiscriminant(m) = r.v[1]
         THEN Ok(CHOOSE m \in VmMemMappingTypeVariants :
                     VmMemMappingTypeDiscriminant(m) = r.v[1])
         ELSE DeError

De_EmulatedDeviceType(x) ==
    LET r == De_u8(x) IN
    IF ~r.ok THEN DeError
    ELSE IF \E v \in EmulatedDeviceTypeVariants : EmulatedDeviceTypeDiscriminant(v) = r.v[1]
         THEN Ok(CHOOSE v \in EmulatedDeviceTypeVariants :
                     EmulatedDeviceTypeDiscriminant(v) = r.v[1])
         ELSE DeError

(***************************************************************************)
(* VMInterruptMode (lib.rs 303-321): serde's derived variant visitor, an   *)
(* exact match of the string against each variant's rename and aliases.    *)
(***************************************************************************)
VMInterruptModeVariants == {"NoIrq", "Emulated", "Passthrough"}

\* A Default impl that returns another variant.
VMInterruptMode_default_mutEmulated == "Emulated"

\* impl Default for VMInterruptMode (lib.rs 317-321).
VMInterruptMode_default == "NoIrq"

\* A visitor that lacks the alias "pt".
De_VMInterruptMode_mutNoPt(x) ==
    IF x.t # "str" THEN DeError
    ELSE CASE x.s \in {"no_irq", "no", "none"} -> Ok("NoIrq")
           [] x.s \in {"emu", "emulated"}      -> Ok("Emulated")
           [] x.s \in {"passthrough"}          -> Ok("Passthrough")
           [] OTHER                            -> DeError

\* A visitor that falls back to the default on an unknown string.
De_VMInterruptMode_mutFallback(x) ==
    IF x.t # "str" THEN DeError
    ELSE CASE x.s \in {"no_irq", "no", "none"} -> Ok("NoIrq")
           [] x.s \in {"emu", "emulated"}      -> Ok("Emulated")
           [] x.s \in {"passthrough", "pt"}    -> Ok("Passthrough")
           [] OTHER                            -> Ok(VMInterruptMode_default)

De_VMInterruptMode(x) ==
    IF x.t # "str" THEN DeError
    ELSE CASE x.s \in {"no_irq", "no", "none"} -> Ok("NoIrq")
           [] x.s \in {"emu", "emulated"}      -> Ok("Emulated")
           [] x.s \in {"passthrough", "pt"}    -> Ok("Passthrough")
           [] OTHER                            -> DeError

\* #[serde(default)] on interrupt_mode (lib.rs 331-332): a missing key is the
\* default.
De_interrupt_mode(x) ==
    IF x.t = "absent" THEN Ok(VMInterruptMode_default) ELSE De_VMInterruptMode(x)

(***************************************************************************)
(* The value objects, decoded from a TOML array positionally (serde's      *)
(* derived visit_seq).  An array shorter than the struct is an error       *)
(* ("invalid length"); the documents drawn below hold no longer one.       *)
(***************************************************************************)
\* VmMemConfig (lib.rs 68-79): [gpa, size, flags, map_type].
De_VmMemConfig(x) ==
    IF x.t # "arr" \/ Len(x.a) # 4 THEN DeError
    ELSE LET gpa == De_usize(x.a[1])
             size == De_usize(x.a[2])
             flags == De_usize(x.a[3])
             map_type == De_VmMemMappingType(x.a[4])
         IN IF gpa.ok /\ size.ok /\ flags.ok /\ map_type.ok
            THEN Ok([gpa |-> gpa.v[1], size |-> size.v[1], flags |-> flags.v[1],
                     map_type |-> map_type.v[1]])
            ELSE DeError

\* An EmulatedDeviceConfig decoder that reads base_gpa and length in the
\* other order.
De_EmulatedDeviceConfig_mutSwapped(x) ==
    IF x.t # "arr" \/ Len(x.a) # 6 THEN DeError
    ELSE LET name == De_String(x.a[1])
             base_gpa == De_usize(x.a[3])
             length == De_usize(x.a[2])
             irq_id == De_usize(x.a[4])
             emu_type == De_EmulatedDeviceType(x.a[5])
             cfg_list == De_Vec_usize(x.a[6])
         IN IF name.ok /\ base_gpa.ok /\ length.ok /\ irq_id.ok /\ emu_type.ok
               /\ cfg_list.ok
            THEN Ok([name |-> name.v[1], base_gpa |-> base_gpa.v[1],
                     length |-> length.v[1], irq_id |-> irq_id.v[1],
                     emu_type |-> emu_type.v[1], cfg_list |-> cfg_list.v[1]])
            ELSE DeError

\* EmulatedDeviceConfig (lib.rs 209-224):
\* [name, base_gpa, length, irq_id, emu_type, cfg_list].
De_EmulatedDeviceConfig(x) ==
    IF x.t # "arr" \/ Len(x.a) # 6 THEN DeError
    ELSE LET name == De_String(x.a[1])
             base_gpa == De_usize(x.a[2])
             length == De_usize(x.a[3])
             irq_id == De_usize(x.a[4])
             emu_type == De_EmulatedDeviceType(x.a[5])
             cfg_list == De_Vec_usize(x.a[6])
         IN IF name.ok /\ base_gpa.ok /\ length.ok /\ irq_id.ok /\ emu_type.ok
               /\ cfg_list.ok
            THEN Ok([name |-> name.v[1], base_gpa |-> base_gpa.v[1],
                     length |-> length.v[1], irq_id |-> irq_id.v[1],
                     emu_type |-> emu_type.v[1], cfg_list |-> cfg_list.v[1]])
            ELSE DeError

\* PassThroughDeviceConfig (lib.rs 226-239):
\* [name, base_gpa, base_hpa, length, irq_id].
De_PassThroughDeviceConfig(x) ==
    IF x.t # "arr" \/ Len(x.a) # 5 THEN DeError
    ELSE LET name == De_String(x.a[1])
             base_gpa == De_usize(x.a[2])
             base_hpa == De_usize(x.a[3])
             length == De_usize(x.a[4])
             irq_id == De_usize(x.a[5])
         IN IF name.ok /\ base_gpa.ok /\ base_hpa.ok /\ length.ok /\ irq_id.ok
            THEN Ok([name |-> name.v[1], base_gpa |-> base_gpa.v[1],
                     base_hpa |-> base_hpa.v[1], length |-> length.v[1],
                     irq_id |-> irq_id.v[1]])
            ELSE DeError

De_Vec_VmMemConfig(x) ==
    De_Vec(x, [k \in 1..Len(x.a) |-> De_VmMemConfig(x.a[k])])
De_Vec_EmulatedDeviceConfig(x) ==
    De_Vec(x, [k \in 1..Len(x.a) |-> De_EmulatedDeviceConfig(x.a[k])])
De_Vec_PassThroughDeviceConfig(x) ==
    De_Vec(x, [k \in 1..Len(x.a) |-> De_PassThroughDeviceConfig(x.a[k])])

(***************************************************************************)
(* The sub-configs, decoded from a TOML table by key (serde's derived      *)
(* visit_map).  A table value is [t, f]: its type tag and its keys; a key  *)
(* that is not an Option and has no #[serde(default)] must be present      *)
(* ("missing field"), which the primitive decoders report on Absent.       *)
(***************************************************************************)
\* A Base Config decoder that passes vm_type through the VMType enum, so an
\* undefined code becomes the code of the default variant.
De_VMBaseConfig_mutEnum(x) ==
    IF x.t # "tbl" THEN DeError
    ELSE LET id == De_usize(x.f.id)
             name == De_String(x.f.name)
             vm_type == De_usize(x.f.vm_type)
             cpu_num == De_usize(x.f.cpu_num)
             phys_cpu_ids == De_Option_Vec_usize(x.f.phys_cpu_ids)
             phys_cpu_sets == De_Option_Vec_usize(x.f.phys_cpu_sets)
         IN IF id.ok /\ name.ok /\ vm_type.ok /\ cpu_num.ok /\ phys_cpu_ids.ok
               /\ phys_cpu_sets.ok
            THEN Ok([id |-> id.v[1], name |-> name.v[1],
                     vm_type |-> usize_from_VMType(VMType_from(vm_type.v[1]).v),
                     cpu_num |-> cpu_num.v[1], phys_cpu_ids |-> phys_cpu_ids.v[1],
                     phys_cpu_sets |-> phys_cpu_sets.v[1]])
            ELSE DeError


\* A Base Config decoder that requires phys_cpu_ids and phys_cpu_sets, when
\* present, to hold cpu_num entries.
De_VMBaseConfig_mutChecked(x) ==
    IF x.t # "tbl" THEN DeError
    ELSE LET id == De_usize(x.f.id)
             name == De_String(x.f.name)
             vm_type == De_usize(x.f.vm_type)
             cpu_num == De_usize(x.f.cpu_num)
             phys_cpu_ids == De_Option_Vec_usize(x.f.phys_cpu_ids)
             phys_cpu_sets == De_Option_Vec_usize(x.f.phys_cpu_sets)
         IN IF id.ok /\ name.ok /\ vm_type.ok /\ cpu_num.ok /\ phys_cpu_ids.ok
               /\ phys_cpu_sets.ok
               /\ \A o \in {phys_cpu_ids.v[1], phys_cpu_sets.v[1]} :
                     o # None => Len(o[1]) = cpu_num.v[1]
            THEN Ok([id |-> id.v[1], name |-> name.v[1], vm_type |-> vm_type.v[1],
                     cpu_num |-> cpu_num.v[1], phys_cpu_ids |-> phys_cpu_ids.v[1],
                     phys_cpu_sets |-> phys_cpu_sets.v[1]])
            ELSE DeError


\* VMBaseConfig (lib.rs 241-270).
De_VMBaseConfig(x) ==
    IF x.t # "tbl" THEN DeError
    ELSE LET id == De_usize(x.f.id)
             name == De_String(x.f.name)
             vm_type == De_usize(x.f.vm_type)
             cpu_num == De_usize(x.f.cpu_num)
             phys_cpu_ids == De_Option_Vec_usize(x.f.phys_cpu_ids)
             phys_cpu_sets == De_Option_Vec_usize(x.f.phys_cpu_sets)
         IN IF id.ok /\ name.ok /\ vm_type.ok /\ cpu_num.ok /\ phys_cpu_ids.ok
               /\ phys_cpu_sets.ok
            THEN Ok([id |-> id.v[1], name |-> name.v[1], vm_type |-> vm_type.v[1],
                     cpu_num |-> cpu_num.v[1], phys_cpu_ids |-> phys_cpu_ids.v[1],
                     phys_cpu_sets |-> phys_cpu_sets.v[1]])
            ELSE DeError

\* VMKernelConfig (lib.rs 272-301).
De_VMKernelConfig(x) ==
    IF x.t # "tbl" THEN DeError
    ELSE LET entry_point == De_usize(x.f.entry_point)
             kernel_path == De_String(x.f.kernel_path)
             kernel_load_addr == De_usize(x.f.kernel_load_addr)
             bios_path == De_Option_String(x.f.bios_path)
             bios_load_addr == De_Option_usize(x.f.bios_load_addr)
             dtb_path == De_Option_String(x.f.dtb_path)
             dtb_load_addr == De_Option_usize(x.f.dtb_load_addr)
             ramdisk_path == De_Option_String(x.f.ramdisk_path)
             ramdisk_load_addr == De_Option_usize(x.f.ramdisk_load_addr)
             image_location == De_Option_String(x.f.image_location)
             cmdline == De_Option_String(x.f.cmdline)
             disk_path == De_Option_String(x.f.disk_path)
             memory_regions == De_Vec_VmMemConfig(x.f.memory_regions)
         IN IF entry_point.ok /\ kernel_path.ok /\ kernel_load_addr.ok
               /\ bios_path.ok /\ bios_load_addr.ok /\ dtb_path.ok /\ dtb_load_addr.ok
               /\ ramdisk_path.ok /\ ramdisk_load_addr.ok /\ image_location.ok
               /\ cmdline.ok /\ disk_path.ok /\ memory_regions.ok
            THEN Ok([entry_point |-> entry_point.v[1],
                     kernel_path |-> kernel_path.v[1],
                     kernel_load_addr |-> kernel_load_addr.v[1],
                     bios_path |-> bios_path.v[1],
                     bios_load_addr |-> bios_load_addr.v[1],
                     dtb_path |-> dtb_path.v[1],
                     dtb_load_addr |-> dtb_load_addr.v[1],
                     ramdisk_path |-> ramdisk_path.v[1],
                     ramdisk_load_addr |-> ramdisk_load_addr.v[1],
                     image_location |-> image_location.v[1],
                     cmdline |-> cmdline.v[1],
                     disk_path |-> disk_path.v[1],
                     memory_regions |-> memory_regions.v[1]])
            ELSE DeError

\* VMDevicesConfig (lib.rs 323-333).
De_VMDevicesConfig(x) ==
    IF x.t # "tbl" THEN DeError
    ELSE LET emu_devices == De_Vec_EmulatedDeviceConfig(x.f.emu_devices)
             passthrough_devices == De_Vec_PassThroughDeviceConfig(x.f.passthrough_devices)
             interrupt_mode == De_interrupt_mode(x.f.interrupt_mode)
         IN IF emu_devices.ok /\ passthrough_devices.ok /\ interrupt_mode.ok
            THEN Ok([emu_devices |-> emu_devices.v[1],
                     passthrough_devices |-> passthrough_devices.v[1],
                     interrupt_mode |-> interrupt_mode.v[1]])
            ELSE DeError

\* AxVMCrateConfig (lib.rs 335-345): the three tables, each mandatory.
De_AxVMCrateConfig(doc) ==
    LET base == De_VMBaseConfig(doc.base)
        kernel == De_VMKernelConfig(doc.kernel)
        devices == De_VMDevicesConfig(doc.devices)
    IN IF base.ok /\ kernel.ok /\ devices.ok
       THEN Ok([base |-> base.v[1], kernel |-> kernel.v[1], devices |-> devices.v[1]])
       ELSE DeError

\* toml::from_str::<AxVMCrateConfig>: the text is parsed as TOML, then decoded.
toml_from_str(doc) == IF ~doc.syntax THEN DeError ELSE De_AxVMCrateConfig(doc)

\* toml::from_str::<VMDevicesConfig> (test.rs 122, 131): the document's root
\* table is the Devices Config.
toml_from_str_VMDevicesConfig(doc) ==
    IF ~doc.syntax THEN DeError ELSE De_VMDevicesConfig(doc.devices)

\* A from_toml that reports the failure under another error kind.
from_toml_mutKind(doc) ==
    LET r == toml_from_str(doc) IN
    IF r.ok THEN [ret |-> Ok(r.v[1]), log |-> <<>>]
    ELSE [ret |-> Err("InvalidData"), log |-> <<Warn("ConfigTomlParseError")>>]

\* A from_toml that returns the error without logging it.
from_toml_mutSilent(doc) ==
    LET r == toml_from_str(doc) IN
    IF r.ok THEN [ret |-> Ok(r.v[1]), log |-> <<>>]
    ELSE [ret |-> Err("InvalidInput"), log |-> <<>>]


\* AxVMCrateConfig::from_toml (lib.rs 347-356): the result and the diagnostics.
from_toml(doc) ==
    LET r == toml_from_str(doc) IN
    IF r.ok THEN [ret |-> Ok(r.v[1]), log |-> <<>>]
    ELSE [ret |-> Err("InvalidInput"), log |-> <<Warn("ConfigTomlParseError")>>]

(***************************************************************************)
(* The structural defaults (#[derive(Default)] and the Default impls).     *)
(***************************************************************************)
VmMemConfig_default ==
    [gpa |-> 0, size |-> 0, flags |-> 0, map_type |-> VmMemMappingType_default]

EmulatedDeviceConfig_default ==
    [name |-> "", base_gpa |-> 0, length |-> 0, irq_id |-> 0,
     emu_type |-> EmulatedDeviceType_default, cfg_list |-> <<>>]

PassThroughDeviceConfig_default ==
    [name |-> "", base_gpa |-> 0, base_hpa |-> 0, length |-> 0, irq_id |-> 0]

\* A default Base Config whose vm_type is the code of VMType::default().
VMBaseConfig_default_mutVmType ==
    [id |-> 0, name |-> "", vm_type |-> 1, cpu_num |-> 0,
     phys_cpu_ids |-> None, phys_cpu_sets |-> None]

VMBaseConfig_default ==
    [id |-> 0, name |-> "", vm_type |-> 0, cpu_num |-> 0,
     phys_cpu_ids |-> None, phys_cpu_sets |-> None]

VMKernelConfig_default ==
    [entry_point |-> 0, kernel_path |-> "", kernel_load_addr |-> 0,
     bios_path |-> None, bios_load_addr |-> None,
     dtb_path |-> None, dtb_load_addr |-> None,
     ramdisk_path |-> None, ramdisk_load_addr |-> None,
     image_location |-> None, cmdline |-> None, disk_path |-> None,
     memory_regions |-> <<>>]

VMDevicesConfig_default ==
    [emu_devices |-> <<>>, passthrough_devices |-> <<>>,
     interrupt_mode |-> VMInterruptMode_default]

AxVMCrateConfig_default ==
    [base |-> VMBaseConfig_default, kernel |-> VMKernelConfig_default,
     devices |-> VMDevicesConfig_default]

(***************************************************************************)
(* The input documents.  TLC's integers are 32 bits wide, so the addresses *)
(* of the example documents are scaled-down stand-ins; no decoder above    *)
(* depends on an address's magnitude.                                      *)
(***************************************************************************)
Tbl(f) == [t |-> "tbl", f |-> f]

\* The example document of test_config_deser (test.rs 10-43).
FullDoc ==
    [syntax |-> TRUE,
     base |-> Tbl([id |-> TInt(12), name |-> TStr("test_vm"), vm_type |-> TInt(1),
                   cpu_num |-> TInt(2),
                   phys_cpu_ids |-> TArr(<<TInt(1280), TInt(1281)>>),
                   phys_cpu_sets |-> TArr(<<TInt(3), TInt(4)>>)]),
     kernel |-> Tbl([entry_point |-> TInt(48879),
                     kernel_path |-> TStr("amazing-os.bin"),
                     kernel_load_addr |-> TInt(48879),
                     bios_path |-> Absent, bios_load_addr |-> Absent,
                     dtb_path |-> TStr("impressive-board.dtb"),
                     dtb_load_addr |-> TInt(40960),
                     ramdisk_path |-> Absent, ramdisk_load_addr |-> Absent,
                     image_location |-> TStr("memory"),
                     cmdline |-> Absent, disk_path |-> Absent,
                     memory_regions |->
                         TArr(<<TArr(<<TInt(32768), TInt(32768), TInt(7), TInt(1)>>)>>)]),
     devices |-> Tbl([emu_devices |->
                          TArr(<<TArr(<<TStr("dev2"), TInt(2048), TInt(256), TInt(0),
                                        TInt(33), TArr(<<>>)>>),
                                 TArr(<<TStr("dev3"), TInt(2056), TInt(256), TInt(0),
                                        TInt(34), TArr(<<>>)>>)>>),
                      passthrough_devices |->
                          TArr(<<TArr(<<TStr("dev0"), TInt(0), TInt(0), TInt(2048), TInt(1)>>),
                                 TArr(<<TStr("dev1"), TInt(2304), TInt(2304), TInt(2560),
                                        TInt(2)>>)>>),
                      interrupt_mode |-> TStr("passthrough")])]

\* A document that holds the mandatory keys only.
MinimalDoc ==
    [syntax |-> TRUE,
     base |-> Tbl([id |-> TInt(1), name |-> TStr("vm"), vm_type |-> TInt(1),
                   cpu_num |-> TInt(1),
                   phys_cpu_ids |-> Absent, phys_cpu_sets |-> Absent]),
     kernel |-> Tbl([entry_point |-> TInt(4096), kernel_path |-> TStr("k.bin"),
                     kernel_load_addr |-> TInt(4096),
                     bios_path |-> Absent, bios_load_addr |-> Absent,
                     dtb_path |-> Absent, dtb_load_addr |-> Absent,
                     ramdisk_path |-> Absent, ramdisk_load_addr |-> Absent,
                     image_location |-> Absent,
                     cmdline |-> Absent, disk_path |-> Absent,
                     memory_regions |->
                         TArr(<<TArr(<<TInt(4096), TInt(4096), TInt(7), TInt(1)>>)>>)]),
     devices |-> Tbl([emu_devices |->
                          TArr(<<TArr(<<TStr("uart"), TInt(2048), TInt(256), TInt(5),
                                        TInt(2), TArr(<<TInt(9)>>)>>)>>),
                      passthrough_devices |-> TArr(<<>>),
                      interrupt_mode |-> Absent])]

\* test_interrupt_mode_deser's document (test.rs 117-120), as the devices
\* table of an otherwise minimal document.
EmptyDevicesDoc ==
    [MinimalDoc EXCEPT !.devices.f.emu_devices = TArr(<<>>),
                       !.kernel.f.memory_regions = TArr(<<>>),
                       !.base.f.vm_type = TInt(0)]

\* The empty document: none of the three tables.
EmptyDoc ==
    [MinimalDoc EXCEPT !.base.t = "absent", !.kernel.t = "absent", !.devices.t = "absent"]

Baselines == {FullDoc, MinimalDoc, EmptyDevicesDoc, EmptyDoc}

Tables == {"base", "kernel", "devices"}

MandatoryPaths ==
    {<<"base", "id">>, <<"base", "name">>, <<"base", "vm_type">>, <<"base", "cpu_num">>,
     <<"kernel", "entry_point">>, <<"kernel", "kernel_path">>,
     <<"kernel", "kernel_load_addr">>, <<"kernel", "memory_regions">>,
     <<"devices", "emu_devices">>, <<"devices", "passthrough_devices">>}

OptionalPaths ==
    {<<"base", "phys_cpu_ids">>, <<"base", "phys_cpu_sets">>,
     <<"kernel", "bios_path">>, <<"kernel", "bios_load_addr">>,
     <<"kernel", "dtb_path">>, <<"kernel", "dtb_load_addr">>,
     <<"kernel", "ramdisk_path">>, <<"kernel", "ramdisk_load_addr">>,
     <<"kernel", "image_location">>, <<"kernel", "cmdline">>,
     <<"kernel", "disk_path">>}

InterruptModePath == <<"devices", "interrupt_mode">>

Paths == MandatoryPaths \cup OptionalPaths \cup {InterruptModePath}

\* The paths whose Rust type is usize or Option<usize>.
IntegerPaths ==
    {<<"base", "id">>, <<"base", "vm_type">>, <<"base", "cpu_num">>,
     <<"kernel", "entry_point">>, <<"kernel", "kernel_load_addr">>,
     <<"kernel", "bios_load_addr">>, <<"kernel", "dtb_load_addr">>,
     <<"kernel", "ramdisk_load_addr">>}

\* The seven spellings the Interrupt Mode visitor lists (lib.rs 307-313).
AcceptedSpellings == {"no_irq", "no", "none", "emu", "emulated", "passthrough", "pt"}

\* Strings drawn for interrupt_mode: the accepted ones, case variants, the
\* Rust variant names, near misses and the empty string.
InterruptModeStrings ==
    AcceptedSpellings \cup
    {"", "PT", "Pt", "Emulated", "EMU", "NoIrq", "NO_IRQ", "None", "Passthrough",
     "pass", "emulate", "no-irq", "irq"}

\* Codes drawn for a u8-repr enum field: around the defined codes, at the
\* u8 boundary, above it at a defined code plus 256, and a negative one.
ReprCodes == {0, 1, 2, 3, 9, 10, 32, 33, 34, 35, 225, 226, 227, 228, 255, 256, 257, 289, -1}

MemRegion(code) == TArr(<<TInt(8192), TInt(4096), TInt(3), code>>)
EmuDevice(code) == TArr(<<TStr("dev"), TInt(2048), TInt(16), TInt(7), code, TArr(<<TInt(1), TInt(2)>>)>>)

\* The values a single edit may give to the key at path p.
FieldAlts(p) ==
    {Absent} \cup
    CASE p \in IntegerPaths ->
           {TInt(0), TInt(2), TInt(3), TInt(999), TInt(-1), TStr("not_a_number")}
      [] p \in {<<"base", "phys_cpu_ids">>, <<"base", "phys_cpu_sets">>} ->
           {TArr(<<>>), TArr(<<TInt(1)>>), TArr(<<TInt(1), TInt(2), TInt(4)>>),
            TArr(<<TStr("x")>>), TInt(1)}
      [] p = <<"kernel", "memory_regions">> ->
           {TArr(<<>>), TInt(0), TArr(<<TArr(<<TInt(1), TInt(2), TInt(3)>>)>>),
            TArr(<<MemRegion(TInt(0)), MemRegion(TInt(1))>>)}
           \cup {TArr(<<MemRegion(TInt(c))>>) : c \in ReprCodes}
           \cup {TArr(<<MemRegion(TStr("1"))>>)}
      [] p = <<"devices", "emu_devices">> ->
           {TArr(<<>>), TStr("none"), TArr(<<EmuDevice(TInt(225)), EmuDevice(TInt(1))>>)}
           \cup {TArr(<<EmuDevice(TInt(c))>>) : c \in ReprCodes}
           \cup {TArr(<<EmuDevice(TStr("console"))>>)}
      [] p = <<"devices", "passthrough_devices">> ->
           {TArr(<<>>), TInt(0),
            TArr(<<TArr(<<TStr("pt0"), TInt(1), TInt(2), TInt(3), TInt(4)>>)>>),
            TArr(<<TArr(<<TStr("pt0"), TInt(1), TInt(2), TInt(3)>>)>>),
            TArr(<<TArr(<<TInt(0), TInt(1), TInt(2), TInt(3), TInt(4)>>)>>)}
      [] p = InterruptModePath ->
           {TStr(x) : x \in InterruptModeStrings} \cup {TInt(0), TInt(1)}
      [] OTHER -> {TStr(""), TStr("some/path"), TInt(5)}

\* An edit of a document: one key changed, one table removed ("absent") or
\* replaced by a scalar ("int"), the syntax broken, or nothing.
NoEdit == [k |-> "none", p |-> <<"", "">>, a |-> Absent, to |-> ""]

AllEdits ==
    {NoEdit}
    \cup UNION {{[k |-> "field", p |-> p, a |-> a, to |-> ""] : a \in FieldAlts(p)} : p \in Paths}
    \cup {[k |-> "table", p |-> <<t, "">>, a |-> Absent, to |-> to] :
             t \in Tables, to \in {"absent", "int"}}
    \cup {[k |-> "syntax", p |-> <<"", "">>, a |-> Absent, to |-> ""]}

ApplyEdit(d, e) ==
    CASE e.k = "none"   -> d
      [] e.k = "field"  -> [d EXCEPT ![e.p[1]].f[e.p[2]] = e.a]
      [] e.k = "table"  -> [d EXCEPT ![e.p[1]].t = e.to]
      [] e.k = "syntax" -> [d EXCEPT !.syntax = FALSE]

\* The edits the n-th edit of a document is drawn from.
EditChoices(n) == IF n <= MaxEdits THEN AllEdits ELSE {NoEdit}

\* A value of the right type for the optional key at path p.
Sample(p) ==
    CASE p \in IntegerPaths -> TInt(8192)
      [] p \in {<<"base", "phys_cpu_ids">>, <<"base", "phys_cpu_sets">>} -> TArr(<<TInt(1)>>)
      [] p = InterruptModePath -> TStr("emu")
      [] OTHER -> TStr("some/path")

\* The minimal document with exactly the optional keys of P present.
WithOptional(P) ==
    [syntax |-> TRUE,
     base |-> Tbl([k \in DOMAIN MinimalDoc.base.f |->
                     IF <<"base", k>> \in P THEN Sample(<<"base", k>>)
                     ELSE MinimalDoc.base.f[k]]),
     kernel |-> Tbl([k \in DOMAIN MinimalDoc.kernel.f |->
                       IF <<"kernel", k>> \in P THEN Sample(<<"kernel", k>>)
                       ELSE MinimalDoc.kernel.f[k]]),
     devices |-> Tbl([k \in DOMAIN MinimalDoc.devices.f |->
                        IF <<"devices", k>> \in P THEN Sample(<<"devices", k>>)
                        ELSE MinimalDoc.devices.f[k]])]

OptionalSubsetDocs == {WithOptional(P) : P \in SUBSET (OptionalPaths \cup {InterruptModePath})}

(***************************************************************************)
(* The template builder (templates.rs 26-71).  cpu_num is drawn up to      *)
(* MaxCpu.  The integer arguments are usize; MaxTomlInt stands for         *)
(* i64::MAX, the largest integer a TOML document holds, and MaxTomlInt + 1 *)
(* for the usize values above it (TLC's integers are 32 bits wide).        *)
(***************************************************************************)
\* The largest cpu_num drawn.
MaxCpu == 3

\* The stand-in for i64::MAX.
MaxTomlInt == 1000000

\* A builder whose phys_cpu_ids are 1..cpu_num.
get_vm_config_template_mutFromOne(id, name, vm_type, cpu_num, entry_point, kernel_path, kernel_load_addr, image_location, cmdline) ==
    [base |-> [id |-> id, name |-> name, vm_type |-> vm_type, cpu_num |-> cpu_num,
               phys_cpu_ids |-> Some([k \in 1..cpu_num |-> k]),
               phys_cpu_sets |-> None],
     kernel |-> [entry_point |-> entry_point, kernel_path |-> kernel_path,
                 kernel_load_addr |-> kernel_load_addr,
                 bios_path |-> None, bios_load_addr |-> None,
                 dtb_path |-> None, dtb_load_addr |-> None,
                 ramdisk_path |-> None, ramdisk_load_addr |-> None,
                 image_location |-> Some(image_location), cmdline |-> cmdline,
                 disk_path |-> None, memory_regions |-> <<>>],
     devices |-> [emu_devices |-> <<>>, passthrough_devices |-> <<>>,
                  interrupt_mode |-> VMInterruptMode_default]]

\* get_vm_config_template: phys_cpu_ids is (0..cpu_num).collect().
get_vm_config_template(id, name, vm_type, cpu_num, entry_point, kernel_path, kernel_load_addr, image_location, cmdline) ==
    [base |-> [id |-> id, name |-> name, vm_type |-> vm_type, cpu_num |-> cpu_num,
               phys_cpu_ids |-> Some([k \in 1..cpu_num |-> k - 1]),
               phys_cpu_sets |-> None],
     kernel |-> [entry_point |-> entry_point, kernel_path |-> kernel_path,
                 kernel_load_addr |-> kernel_load_addr,
                 bios_path |-> None, bios_load_addr |-> None,
                 dtb_path |-> None, dtb_load_addr |-> None,
                 ramdisk_path |-> None, ramdisk_load_addr |-> None,
                 image_location |-> Some(image_location), cmdline |-> cmdline,
                 disk_path |-> None, memory_regions |-> <<>>],
     devices |-> [emu_devices |-> <<>>, passthrough_devices |-> <<>>,
                  interrupt_mode |-> VMInterruptMode_default]]

\* The arguments drawn for the builder: every combination of these.
BuilderArgs ==
    [id : {0, 1},
     name : {"", "GuestVM-aarch64"},
     vm_type : {0, 1, 2, 7},
     cpu_num : 0..MaxCpu,
     entry_point : {0, MaxTomlInt, MaxTomlInt + 1},
     kernel_path : {"", "k.bin"},
     kernel_load_addr : {0, 4096},
     image_location : {"fs", "memory"},
     cmdline : {None, Some("console=ttyS0")}]


(***************************************************************************)
(* The command-line tool (tool.rs 127-211; parser.rs 32-62 is the same     *)
(* check).  proc is the state of the tool's process: pc the statement it   *)
(* is at, out and errs the lines it printed on the standard output and on  *)
(* the error stream, exit its exit status once it has ended, steps the     *)
(* steps it has executed; kernel_path, template, toml and target are the   *)
(* locals of generate and written is the content of the file it wrote.     *)
(* The file named on the command line of check is missing, present but     *)
(* unreadable, or readable with a content.                                 *)
(***************************************************************************)
IdleProc ==
    [pc |-> "idle", out |-> <<>>, errs |-> <<>>, exit |-> None, steps |-> <<>>,
     kernel_path |-> None, template |-> None, toml |-> None, target |-> None,
     written |-> None]

\* std::process::exit(1) after eprintln!(line).
ExitWithError(p, line) ==
    [p EXCEPT !.errs = Append(@, line), !.exit = Some(1), !.pc = "exited"]

\* A check that reports a missing file and goes on to read it.
check_exists_mutContinue(file, p) ==
    LET q == [p EXCEPT !.steps = Append(@, "exists")] IN
    IF file.state = "missing"
    THEN [q EXCEPT !.errs = Append(@, "Error: File does not exist."), !.pc = "read"]
    ELSE [q EXCEPT !.pc = "read"]

\* tool.rs 134-138: if !Path::new(file_path).exists() { eprintln; exit(1) }.
check_exists(file, p) ==
    LET q == [p EXCEPT !.steps = Append(@, "exists")] IN
    IF file.state = "missing"
    THEN ExitWithError(q, "Error: File does not exist.")
    ELSE [q EXCEPT !.pc = "read"]

\* tool.rs 141-147: fs::read_to_string(file_path), Err => eprintln; exit(1).
check_read(file, p) ==
    LET q == [p EXCEPT !.steps = Append(@, "read")] IN
    IF file.state # "ok"
    THEN ExitWithError(q, "Error: Failed to read file.")
    ELSE [q EXCEPT !.pc = "parse"]

\* tool.rs 150-159: AxVMCrateConfig::from_toml(&file_content); Ok prints the
\* two lines and run() returns, so that main ends with status 0.
check_parse(file, p) ==
    LET q == [p EXCEPT !.steps = Append(@, "parse")]
        r == from_toml(file.content).ret
    IN IF r.ok
       THEN [q EXCEPT !.out = <<[line |-> "Config file is valid.", cfg |-> None],
                                [line |-> "Config:", cfg |-> Some(r.v[1])]>>,
                      !.exit = Some(0), !.pc = "returned"]
       ELSE ExitWithError(q, "Error: Config file is invalid.")

\* The files drawn for check: a readable file holding a baseline document
\* after at most one edit, and a missing and an unreadable path.
CheckFiles ==
    {[state |-> "ok", content |-> ApplyEdit(b, e)] : b \in Baselines, e \in AllEdits}
    \cup {[state |-> s, content |-> FullDoc] : s \in {"missing", "unreadable"}}


(***************************************************************************)
(* Serialisation (the derived Serialize impls and toml::to_string, which   *)
(* tool.rs 190 calls on a template).  A struct is written as a table, key  *)
(* by key; a field that is None is left out; an enum with #[repr(u8)] is   *)
(* written as its code and an Interrupt Mode as its serde name.            *)
(***************************************************************************)
TTbl(x) == [t |-> "tbl", i |-> 0, s |-> "", a |-> x]

Ser_usize(n) == TInt(n)
Ser_String(x) == TStr(x)
Ser_Vec_usize(v) == TArr([k \in 1..Len(v) |-> Ser_usize(v[k])])
Ser_Option_usize(o) == IF o = None THEN Absent ELSE Ser_usize(o[1])
Ser_Option_Vec_usize(o) == IF o = None THEN Absent ELSE Ser_Vec_usize(o[1])

\* A serialiser that writes an absent string as the empty string.
Ser_Option_String_mutEmpty(o) == IF o = None THEN Ser_String("") ELSE Ser_String(o[1])

Ser_Option_String(o) == IF o = None THEN Absent ELSE Ser_String(o[1])

\* Serialize_repr: the discriminant (lib.rs 52-53, 93-94).
Ser_VmMemMappingType(m) == TInt(VmMemMappingTypeDiscriminant(m))
Ser_EmulatedDeviceType(v) == TInt(EmulatedDeviceTypeDiscriminant(v))

\* A serialiser that writes the Rust name of the variant.
Ser_VMInterruptMode_mutVariantName(m) == TStr(m)

\* The derived Serialize of VMInterruptMode writes the `rename` of the
\* variant (lib.rs 307, 310, 313), never an alias.
Ser_VMInterruptMode(m) ==
    CASE m = "NoIrq"       -> TStr("no_irq")
      [] m = "Emulated"    -> TStr("emu")
      [] m = "Passthrough" -> TStr("passthrough")

\* The value objects are written as tables, one key per field in the order
\* of declaration.  (The aggregates this model serialises are templates,
\* whose three sequences are empty.)
Ser_VmMemConfig(r) ==
    TTbl(<<Ser_usize(r.gpa), Ser_usize(r.size), Ser_usize(r.flags),
           Ser_VmMemMappingType(r.map_type)>>)
Ser_EmulatedDeviceConfig(e) ==
    TTbl(<<Ser_String(e.name), Ser_usize(e.base_gpa), Ser_usize(e.length),
           Ser_usize(e.irq_id), Ser_EmulatedDeviceType(e.emu_type),
           Ser_Vec_usize(e.cfg_list)>>)
Ser_PassThroughDeviceConfig(p) ==
    TTbl(<<Ser_String(p.name), Ser_usize(p.base_gpa), Ser_usize(p.base_hpa),
           Ser_usize(p.length), Ser_usize(p.irq_id)>>)

Ser_VMBaseConfig(b) ==
    Tbl([id |-> Ser_usize(b.id), name |-> Ser_String(b.name),
         vm_type |-> Ser_usize(b.vm_type), cpu_num |-> Ser_usize(b.cpu_num),
         phys_cpu_ids |-> Ser_Option_Vec_usize(b.phys_cpu_ids),
         phys_cpu_sets |-> Ser_Option_Vec_usize(b.phys_cpu_sets)])

Ser_VMKernelConfig(k) ==
    Tbl([entry_point |-> Ser_usize(k.entry_point),
         kernel_path |-> Ser_String(k.kernel_path),
         kernel_load_addr |-> Ser_usize(k.kernel_load_addr),
         bios_path |-> Ser_Option_String(k.bios_path),
         bios_load_addr |-> Ser_Option_usize(k.bios_load_addr),
         dtb_path |-> Ser_Option_String(k.dtb_path),
         dtb_load_addr |-> Ser_Option_usize(k.dtb_load_addr),
         ramdisk_path |-> Ser_Option_String(k.ramdisk_path),
         ramdisk_load_addr |-> Ser_Option_usize(k.ramdisk_load_addr),
         image_location |-> Ser_Option_String(k.image_location),
         cmdline |-> Ser_Option_String(k.cmdline),
         disk_path |-> Ser_Option_String(k.disk_path),
         memory_regions |->
             TArr([j \in 1..Len(k.memory_regions) |-> Ser_VmMemConfig(k.memory_regions[j])])])

Ser_VMDevicesConfig(d) ==
    Tbl([emu_devices |->
             TArr([j \in 1..Len(d.emu_devices) |->
                      Ser_EmulatedDeviceConfig(d.emu_devices[j])]),
         passthrough_devices |->
             TArr([j \in 1..Len(d.passthrough_devices) |->
                      Ser_PassThroughDeviceConfig(d.passthrough_devices[j])]),
         interrupt_mode |-> Ser_VMInterruptMode(d.interrupt_mode)])

Ser_AxVMCrateConfig(cfg) ==
    [syntax |-> TRUE,
     base |-> Ser_VMBaseConfig(cfg.base),
     kernel |-> Ser_VMKernelConfig(cfg.kernel),
     devices |-> Ser_VMDevicesConfig(cfg.devices)]

\* The integers of a TOML value and of a table's keys.
IntegersOfValue(x) ==
    CASE x.t = "int" -> {x.i}
      [] x.t = "arr" -> {x.a[j].i : j \in {j \in 1..Len(x.a) : x.a[j].t = "int"}}
      [] OTHER -> {}
IntegersOfTable(tb) == UNION {IntegersOfValue(tb.f[k]) : k \in DOMAIN tb.f}

\* toml::to_string on an aggregate whose sequences are empty.  A TOML
\* integer is an i64.  For a usize above i64::MAX the outcome depends on
\* the version of the toml crate the build links: the serialiser reports an
\* error, or it writes the digits and the text then holds an integer that no
\* TOML parser accepts.  The result is the set of possible outcomes.
toml_to_string(cfg) ==
    LET doc == Ser_AxVMCrateConfig(cfg)
        ints == IntegersOfTable(doc.base) \cup IntegersOfTable(doc.kernel)
    IN IF \A n \in ints : n <= MaxTomlInt
       THEN {Ok(doc)}
       ELSE {Err("TomlSerError"), Ok([doc EXCEPT !.syntax = FALSE])}


(***************************************************************************)
(* The generate operation (tool.rs 162-211).  Its environment: whether the *)
(* kernel path can be made canonical and is UTF-8, whether the current     *)
(* directory can be determined, whether the target file can be written.    *)
(***************************************************************************)
\* `.unwrap()` on an Err or a None: the thread panics, the panic message
\* goes to the error stream and the process ends with status 101.
Panic(p, line) ==
    [p EXCEPT !.errs = Append(@, line), !.exit = Some(101), !.pc = "panicked"]

\* Path::canonicalize on an existing path: an absolute path.
Canonical(path) == "/abs/" \o path

\* tool.rs 165-174.
gen_kernel_path(a, p) ==
    LET q == [p EXCEPT !.steps = Append(@, "kernel_path")] IN
    IF a.image_location = "memory"
    THEN CASE a.canonicalize = "err" ->
                Panic(q, "thread 'main' panicked: called Result::unwrap() on an Err value")
           [] a.canonicalize = "not_utf8" ->
                Panic(q, "thread 'main' panicked: called Option::unwrap() on a None value")
           [] OTHER -> [q EXCEPT !.kernel_path = Some(Canonical(a.kernel_path)),
                                 !.pc = "template"]
    ELSE [q EXCEPT !.kernel_path = Some(a.kernel_path), !.pc = "template"]

\* tool.rs 177-187.
gen_template(a, p) ==
    [p EXCEPT !.steps = Append(@, "template"),
              !.template = Some(get_vm_config_template(
                                    a.id, a.name \o "-" \o a.arch, a.vm_type, a.cpu_num,
                                    a.entry_point, p.kernel_path[1], a.kernel_load_addr,
                                    a.image_location, a.cmdline)),
              !.pc = "serialize"]

\* tool.rs 190: toml::to_string(&template).unwrap(), o being its outcome.
gen_serialize(o, p) ==
    LET q == [p EXCEPT !.steps = Append(@, "serialize")] IN
    IF o.ok
    THEN [q EXCEPT !.toml = Some(o.v[1]), !.pc = "target"]
    ELSE Panic(q, "thread 'main' panicked: called Result::unwrap() on an Err value")

\* tool.rs 193-196.
gen_target(a, p) ==
    LET q == [p EXCEPT !.steps = Append(@, "target")] IN
    IF a.output # None
    THEN [q EXCEPT !.target = a.output, !.pc = "write"]
    ELSE IF a.cwd_ok
         THEN [q EXCEPT !.target = Some("/cwd/template.toml"), !.pc = "write"]
         ELSE Panic(q, "thread 'main' panicked: called Result::unwrap() on an Err value")

\* tool.rs 199-210; after the Ok arm run() returns and main ends with status 0.
gen_write(a, p) ==
    LET q == [p EXCEPT !.steps = Append(@, "write")] IN
    IF a.write_ok
    THEN [q EXCEPT !.written = q.toml,
                   !.out = <<[line |-> "Template file has been generated.", cfg |-> None]>>,
                   !.exit = Some(0), !.pc = "returned"]
    ELSE ExitWithError(q, "Error: Failed to write template file.")

\* The command lines and environments drawn for generate.
GenerateArgs ==
    [id : {0}, name : {"GuestVM"}, arch : {"aarch64"}, vm_type : {1},
     cpu_num : {0, 2},
     entry_point : {1, MaxTomlInt + 1},
     kernel_path : {"k.bin"},
     kernel_load_addr : {4096},
     image_location : {"fs", "memory"},
     cmdline : {None, Some("console=ttyS0")},
     output : {None, Some("out.toml")},
     canonicalize : {"ok", "err", "not_utf8"},
     cwd_ok : BOOLEAN,
     write_ok : BOOLEAN]


DefaultTypes ==
    {"VMType", "VmMemMappingType", "EmulatedDeviceType", "VMInterruptMode",
     "VmMemConfig", "EmulatedDeviceConfig", "PassThroughDeviceConfig",
     "VMBaseConfig", "VMKernelConfig", "VMDevicesConfig", "AxVMCrateConfig"}

\* T::default() for each type of the crate that implements Default.
Default(ty) ==
    CASE ty = "VMType"                  -> VMType_default
      [] ty = "VmMemMappingType"        -> VmMemMappingType_default
      [] ty = "EmulatedDeviceType"      -> EmulatedDeviceType_default
      [] ty = "VMInterruptMode"         -> VMInterruptMode_default
      [] ty = "VmMemConfig"             -> VmMemConfig_default
      [] ty = "EmulatedDeviceConfig"    -> EmulatedDeviceConfig_default
      [] ty = "PassThroughDeviceConfig" -> PassThroughDeviceConfig_default
      [] ty = "VMBaseConfig"            -> VMBaseConfig_default
      [] ty = "VMKernelConfig"          -> VMKernelConfig_default
      [] ty = "VMDevicesConfig"         -> VMDevicesConfig_default
      [] ty = "AxVMCrateConfig"         -> AxVMCrateConfig_default

(***************************************************************************)
(* The state machine: a caller invokes one operation of the crate at a     *)
(* time, or runs the command-line tool.  op names the operation last       *)
(* invoked, arg its argument, ret its result and log the diagnostics it    *)
(* emitted; proc is the tool's process, idle while no tool runs.           *)
(***************************************************************************)
Init ==
    /\ op = "idle"
    /\ arg = <<>>
    /\ ret = <<>>
    /\ log = <<>>
    /\ proc = IdleProc

\* AxVMCrateConfig::from_toml(d), for a document d that is a baseline after at
\* most two edits, or the minimal document with some optional keys present.
Do_from_toml(d) ==
    /\ op' = "from_toml"
    /\ arg' = d
    /\ ret' = from_toml(d).ret
    /\ log' = from_toml(d).log

Call_from_toml ==
    /\ op = "idle"
    /\ UNCHANGED proc
    /\ \/ \E b \in Baselines, e1 \in EditChoices(1), e2 \in EditChoices(2) :
             Do_from_toml(ApplyEdit(ApplyEdit(b, e1), e2))
       \/ \E d \in OptionalSubsetDocs : Do_from_toml(d)

\* toml::from_str::<VMDevicesConfig>(d), as test_interrupt_mode_deser calls it.
Do_toml_from_str_VMDevicesConfig(d) ==
    /\ op' = "devices_from_str"
    /\ arg' = [syntax |-> d.syntax, devices |-> d.devices]
    /\ ret' = toml_from_str_VMDevicesConfig(d)
    /\ log' = <<>>

Call_toml_from_str_VMDevicesConfig ==
    /\ op = "idle"
    /\ UNCHANGED proc
    /\ \E b \in Baselines, e1 \in EditChoices(1), e2 \in EditChoices(2) :
          Do_toml_from_str_VMDevicesConfig(ApplyEdit(ApplyEdit(b, e1), e2))

Call_VMType_from ==
    /\ op = "idle"
    /\ UNCHANGED proc
    /\ \E n \in 0..MaxCode :
          /\ op' = "VMType_from"
          /\ arg' = n
          /\ ret' = VMType_from(n).v
          /\ log' = VMType_from(n).log

Call_usize_from_VMType ==
    /\ op = "idle"
    /\ UNCHANGED proc
    /\ \E t \in VMTypeVariants :
          /\ op' = "usize_from_VMType"
          /\ arg' = t
          /\ ret' = usize_from_VMType(t)
          /\ log' = <<>>

Call_from_usize ==
    /\ op = "idle"
    /\ UNCHANGED proc
    /\ \E n \in 0..MaxCode :
          /\ op' = "from_usize"
          /\ arg' = n
          /\ ret' = from_usize(n).v
          /\ log' = from_usize(n).log

Call_removable ==
    /\ op = "idle"
    /\ UNCHANGED proc
    /\ \E v \in EmulatedDeviceTypeVariants :
          /\ op' = "removable"
          /\ arg' = v
          /\ ret' = removable(v)
          /\ log' = <<>>

Call_default ==
    /\ op = "idle"
    /\ UNCHANGED proc
    /\ \E ty \in DefaultTypes :
          /\ op' = "default"
          /\ arg' = ty
          /\ ret' = Default(ty)
          /\ log' = <<>>

Call_get_vm_config_template ==
    /\ op = "idle"
    /\ UNCHANGED proc
    /\ \E a \in BuilderArgs :
          /\ op' = "get_vm_config_template"
          /\ arg' = a
          /\ ret' = get_vm_config_template(a.id, a.name, a.vm_type, a.cpu_num,
                                           a.entry_point, a.kernel_path,
                                           a.kernel_load_addr, a.image_location,
                                           a.cmdline)
          /\ log' = <<>>


\* `axvmconfig check -c <file>`: the process starts.
Call_check ==
    /\ op = "idle"
    /\ \E file \in CheckFiles :
          /\ op' = "check"
          /\ arg' = file
          /\ ret' = <<>>
          /\ log' = <<>>
          /\ proc' = [IdleProc EXCEPT !.pc = "exists"]

Check_exists ==
    /\ op = "check"
    /\ proc.pc = "exists"
    /\ proc' = check_exists(arg, proc)
    /\ UNCHANGED <<op, arg, ret, log>>

Check_read ==
    /\ op = "check"
    /\ proc.pc = "read"
    /\ proc' = check_read(arg, proc)
    /\ UNCHANGED <<op, arg, ret, log>>

\* from_toml's diagnostic goes to the logger main() installed.
Check_parse ==
    /\ op = "check"
    /\ proc.pc = "parse"
    /\ proc' = check_parse(arg, proc)
    /\ log' = from_toml(arg.content).log
    /\ UNCHANGED <<op, arg, ret>>


\* <VMInterruptMode as Serialize>::serialize(m), as a TOML value.
Call_serialize_VMInterruptMode ==
    /\ op = "idle"
    /\ UNCHANGED proc
    /\ \E m \in VMInterruptModeVariants :
          /\ op' = "serialize_VMInterruptMode"
          /\ arg' = m
          /\ ret' = Ser_VMInterruptMode(m)
          /\ log' = <<>>


\* `axvmconfig generate ...`: the process starts.
Call_generate ==
    /\ op = "idle"
    /\ \E a \in GenerateArgs :
          /\ op' = "generate"
          /\ arg' = a
          /\ ret' = <<>>
          /\ log' = <<>>
          /\ proc' = [IdleProc EXCEPT !.pc = "kernel_path"]

Gen_kernel_path ==
    /\ op = "generate"
    /\ proc.pc = "kernel_path"
    /\ proc' = gen_kernel_path(arg, proc)
    /\ UNCHANGED <<op, arg, ret, log>>

Gen_template ==
    /\ op = "generate"
    /\ proc.pc = "template"
    /\ proc' = gen_template(arg, proc)
    /\ UNCHANGED <<op, arg, ret, log>>

Gen_serialize ==
    /\ op = "generate"
    /\ proc.pc = "serialize"
    /\ \E o \in toml_to_string(proc.template[1]) : proc' = gen_serialize(o, proc)
    /\ UNCHANGED <<op, arg, ret, log>>

Gen_target ==
    /\ op = "generate"
    /\ proc.pc = "target"
    /\ proc' = gen_target(arg, proc)
    /\ UNCHANGED <<op, arg, ret, log>>

Gen_write ==
    /\ op = "generate"
    /\ proc.pc = "write"
    /\ proc' = gen_write(arg, proc)
    /\ UNCHANGED <<op, arg, ret, log>>


\* The call is over or the process has ended; the next operation may start.
Return ==
    /\ op # "idle"
    /\ proc.pc \in {"idle", "returned", "exited", "panicked"}
    /\ op' = "idle"
    /\ arg' = <<>>
    /\ ret' = <<>>
    /\ log' = <<>>
    /\ proc' = IdleProc

Next ==
    \/ Call_from_toml
    \/ Call_toml_from_str_VMDevicesConfig
    \/ Call_VMType_from
    \/ Call_usize_from_VMType
    \/ Call_from_usize
    \/ Call_removable
    \/ Call_default
    \/ Call_get_vm_config_template
    \/ Call_serialize_VMInterruptMode
    \/ Call_check
    \/ Check_exists
    \/ Check_read
    \/ Check_parse
    \/ Call_generate
    \/ Gen_kernel_path
    \/ Gen_template
    \/ Gen_serialize
    \/ Gen_target
    \/ Gen_write
    \/ Return

Spec == Init /\ [][Next]_vars

(***************************************************************************)
(* Helpers of the properties.                                              *)
(***************************************************************************)
\* The TOML value the document d holds at path p.
At(d, p) == d[p[1]].f[p[2]]

\* The document d without the key at path p.
Omit(d, p) == [d EXCEPT ![p[1]].f[p[2]] = Absent]

TablesPresent(d) == d.syntax /\ \A t \in Tables : d[t].t = "tbl"

\* The codes the enum declarations define.
DefinedMapCodes == {0, 1}
DefinedEmuCodes == {0, 1, 2, 10, 32, 33, 34, 225, 226, 227}

\* x is a tuple of n elements whose c-th element is a non-negative integer
\* outside the set Defined.
UnknownCodeAt(x, n, c, Defined) ==
    x.t = "arr" /\ Len(x.a) = n /\ x.a[c].t = "int" /\ x.a[c].i >= 0
    /\ x.a[c].i \notin Defined

\* The array x of tuples with every unknown code at position c replaced by 0.
KnownCodes(x, n, c, Defined) ==
    [x EXCEPT !.a = [k \in 1..Len(x.a) |->
                        IF UnknownCodeAt(x.a[k], n, c, Defined)
                        THEN [x.a[k] EXCEPT !.a[c] = TInt(0)]
                        ELSE x.a[k]]]

\* The document d with every unknown map_type and device type code replaced
\* by the code 0.
WithKnownCodes(d) ==
    [d EXCEPT !.kernel.f.memory_regions = KnownCodes(@, 4, 4, DefinedMapCodes),
              !.devices.f.emu_devices = KnownCodes(@, 6, 5, DefinedEmuCodes)]

HasUnknownCode(d) ==
    \/ \E k \in 1..Len(d.kernel.f.memory_regions.a) :
          UnknownCodeAt(d.kernel.f.memory_regions.a[k], 4, 4, DefinedMapCodes)
    \/ \E k \in 1..Len(d.devices.f.emu_devices.a) :
          UnknownCodeAt(d.devices.f.emu_devices.a[k], 6, 5, DefinedEmuCodes)

(***************************************************************************)
(* C1.  Stated as the claim has it: whenever a document that parses once   *)
(* its unknown map_type and device type codes are replaced by defined ones *)
(* holds such an unknown code, from_toml succeeds and decodes each unknown *)
(* code to the type's default variant (MapAlloc, Dummy).  The derived      *)
(* Deserialize_repr decoders reject an unknown code, so this is violated.  *)
(***************************************************************************)
C1_UnknownCodeNeverFailsParse ==
    (/\ op = "from_toml"
     /\ TablesPresent(arg)
     /\ HasUnknownCode(arg)
     /\ from_toml(WithKnownCodes(arg)).ret.ok)
    => /\ ret.ok
       /\ \A k \in 1..Len(arg.kernel.f.memory_regions.a) :
             UnknownCodeAt(arg.kernel.f.memory_regions.a[k], 4, 4, DefinedMapCodes)
             => ret.v[1].kernel.memory_regions[k].map_type = "MapAlloc"
       /\ \A k \in 1..Len(arg.devices.f.emu_devices.a) :
             UnknownCodeAt(arg.devices.f.emu_devices.a[k], 6, 5, DefinedEmuCodes)
             => ret.v[1].devices.emu_devices[k].emu_type = "Dummy"

(***************************************************************************)
(* C2.  Every from_toml call returns exactly one of Ok(aggregate) and      *)
(* Err(InvalidInput) with no aggregate; and a document with a syntax       *)
(* error, a string at an integer key, a missing mandatory key or table, or *)
(* an unrecognised interrupt-mode string gets the Err.                     *)
(***************************************************************************)
Malformed(d) ==
    \/ ~d.syntax
    \/ \E t \in Tables : d[t].t # "tbl"
    \/ \E p \in IntegerPaths : At(d, p).t = "str"
    \/ \E p \in MandatoryPaths : At(d, p).t = "absent"
    \/ /\ At(d, InterruptModePath).t = "str"
       /\ At(d, InterruptModePath).s \notin AcceptedSpellings

IsErrInvalidInput(r) == ~r.ok /\ r.err = "InvalidInput" /\ r.v = <<>>

C2_MalformedIsInvalidInput ==
    op = "from_toml"
    => /\ \/ ret.ok /\ ret.err = "None" /\ Len(ret.v) = 1
          \/ IsErrInvalidInput(ret)
       /\ Malformed(arg) => IsErrInvalidInput(ret)

\* The second document of test_config_from_toml_error_handling: a string at
\* base.id in an otherwise parsable document.
C2_Witness ==
    /\ op = "from_toml"
    /\ arg.syntax
    /\ arg.base.f.id = TStr("not_a_number")
    /\ from_toml([arg EXCEPT !.base.f.id = TInt(1)]).ret.ok
    /\ IsErrInvalidInput(ret)

(***************************************************************************)
(* C3.  Where the rest of the Devices Config (of the document) decodes,    *)
(* interrupt_mode "emulated" and "emu" give Emulated, "passthrough" and    *)
(* "pt" Passthrough, "no_irq", "no" and "none" NoIrq, and an absent        *)
(* interrupt_mode gives NoIrq; the parse succeeds in each case.            *)
(***************************************************************************)
ExpectedInterruptMode(x) ==
    CASE x.t = "absent"                                 -> "NoIrq"
      [] x.t = "str" /\ x.s \in {"emulated", "emu"}     -> "Emulated"
      [] x.t = "str" /\ x.s \in {"passthrough", "pt"}   -> "Passthrough"
      [] x.t = "str" /\ x.s \in {"no_irq", "no", "none"} -> "NoIrq"
      [] OTHER                                          -> "unspecified"

C3_InterruptModeAliases ==
    /\ (/\ op = "devices_from_str"
        /\ toml_from_str_VMDevicesConfig(Omit(arg, InterruptModePath)).ok
        /\ ExpectedInterruptMode(At(arg, InterruptModePath)) # "unspecified")
       => /\ ret.ok
          /\ ret.v[1].interrupt_mode = ExpectedInterruptMode(At(arg, InterruptModePath))
    /\ (/\ op = "from_toml"
        /\ toml_from_str(Omit(arg, InterruptModePath)).ok
        /\ ExpectedInterruptMode(At(arg, InterruptModePath)) # "unspecified")
       => /\ ret.ok
          /\ ret.v[1].devices.interrupt_mode
                = ExpectedInterruptMode(At(arg, InterruptModePath))

C3_Witness ==
    /\ op = "devices_from_str"
    /\ arg.devices.f.emu_devices = TArr(<<>>)
    /\ arg.devices.f.passthrough_devices = TArr(<<>>)
    /\ arg.devices.f.interrupt_mode = TStr("pt")
    /\ ret.ok
    /\ ret.v[1].interrupt_mode = "Passthrough"

(***************************************************************************)
(* C4.  A document whose devices.interrupt_mode is a string other than the *)
(* seven accepted spellings fails to parse with InvalidInput; it does not  *)
(* fall back to the default.                                               *)
(***************************************************************************)
C4_UnknownSpellingRejected ==
    (/\ op = "from_toml"
     /\ TablesPresent(arg)
     /\ At(arg, InterruptModePath).t = "str"
     /\ At(arg, InterruptModePath).s \notin AcceptedSpellings)
    => IsErrInvalidInput(ret)

\* "PT" in a document that parses with "pt" in its place.
C4_Witness ==
    /\ op = "from_toml"
    /\ At(arg, InterruptModePath) = TStr("PT")
    /\ from_toml([arg EXCEPT !.devices.f.interrupt_mode = TStr("pt")]).ret.ok
    /\ IsErrInvalidInput(ret)

(***************************************************************************)
(* C5.  A from_toml call on a document that lacks a mandatory key or one   *)
(* of the three tables fails with InvalidInput.  Omitting an optional key  *)
(* (or interrupt_mode) from a document that parses never makes the parse   *)
(* fail: the result is the same aggregate with None (respectively NoIrq)   *)
(* at that field, whichever other optional keys are present.               *)
(***************************************************************************)
AbsentValue(p) == IF p = InterruptModePath THEN "NoIrq" ELSE None

C5_AbsenceDecidesOutcome ==
    op = "from_toml"
    => /\ (\/ \E t \in Tables : arg[t].t = "absent"
           \/ \E p \in MandatoryPaths : At(arg, p).t = "absent")
          => IsErrInvalidInput(ret)
       /\ ret.ok
          => \A p \in OptionalPaths \cup {InterruptModePath} :
                LET r == from_toml(Omit(arg, p)).ret IN
                /\ r.ok
                /\ r.v[1][p[1]][p[2]] = AbsentValue(p)
                /\ r.v[1] = [ret.v[1] EXCEPT ![p[1]][p[2]] = AbsentValue(p)]
                /\ At(arg, p).t = "absent" => ret.v[1][p[1]][p[2]] = AbsentValue(p)

\* bios_path present without bios_load_addr.
C5_Witness ==
    /\ op = "from_toml"
    /\ arg.kernel.f.bios_path.t = "str"
    /\ arg.kernel.f.bios_load_addr.t = "absent"
    /\ arg.kernel.f.dtb_load_addr.t = "int"
    /\ arg.kernel.f.dtb_path.t = "absent"
    /\ ret.ok
    /\ ret.v[1].kernel.bios_path = Some("some/path")
    /\ ret.v[1].kernel.bios_load_addr = None
    /\ ret.v[1].kernel.dtb_path = None

\* A mandatory key is missing and the parse fails.
C5_WitnessMandatory ==
    /\ op = "from_toml"
    /\ TablesPresent(arg)
    /\ arg.kernel.f.memory_regions.t = "absent"
    /\ \A p \in MandatoryPaths \ {<<"kernel", "memory_regions">>} : At(arg, p).t # "absent"
    /\ IsErrInvalidInput(ret)

(***************************************************************************)
(* C6.  A document that holds the mandatory keys only.                     *)
(***************************************************************************)
OnlyMandatory(d) ==
    /\ TablesPresent(d)
    /\ \A p \in MandatoryPaths : At(d, p).t # "absent"
    /\ \A p \in OptionalPaths \cup {InterruptModePath} : At(d, p).t = "absent"

\* C6 as the claim states it: the aggregate parsed from such a document has
\* every optional field absent, every sequence empty, Interrupt Mode NoIrq,
\* every Memory Mapping Type MapAlloc and VM type code 0.
C6_Original ==
    (op = "from_toml" /\ OnlyMandatory(arg) /\ ret.ok)
    => /\ \A p \in OptionalPaths : ret.v[1][p[1]][p[2]] = None
       /\ ret.v[1].devices.interrupt_mode = "NoIrq"
       /\ ret.v[1].kernel.memory_regions = <<>>
       /\ ret.v[1].devices.emu_devices = <<>>
       /\ ret.v[1].devices.passthrough_devices = <<>>
       /\ \A k \in 1..Len(ret.v[1].kernel.memory_regions) :
             ret.v[1].kernel.memory_regions[k].map_type = "MapAlloc"
       /\ ret.v[1].base.vm_type = 0

\* C6, amended: parsing the empty document fails with InvalidInput; the
\* aggregate parsed from a document that holds the mandatory keys only has
\* every optional field absent and Interrupt Mode NoIrq, while its sequences,
\* its memory mapping types and its VM type code are those the document gives
\* (as long, MapIdentical for code 1, the vm_type written).
C6_MandatoryOnlyDefaults ==
    /\ (op = "from_toml" /\ arg = EmptyDoc) => IsErrInvalidInput(ret)
    /\ (op = "from_toml" /\ OnlyMandatory(arg) /\ ret.ok)
       => /\ \A p \in OptionalPaths : ret.v[1][p[1]][p[2]] = None
          /\ ret.v[1].devices.interrupt_mode = "NoIrq"
          /\ Len(ret.v[1].kernel.memory_regions) = Len(arg.kernel.f.memory_regions.a)
          /\ Len(ret.v[1].devices.emu_devices) = Len(arg.devices.f.emu_devices.a)
          /\ Len(ret.v[1].devices.passthrough_devices)
                = Len(arg.devices.f.passthrough_devices.a)
          /\ \A k \in 1..Len(ret.v[1].kernel.memory_regions) :
                (ret.v[1].kernel.memory_regions[k].map_type = "MapAlloc")
                   <=> (arg.kernel.f.memory_regions.a[k].a[4].i = 0)
          /\ ret.v[1].base.vm_type = arg.base.f.vm_type.i

\* The minimal document: vm_type 1 and one identically mapped region.
C6_Witness ==
    /\ op = "from_toml"
    /\ arg = MinimalDoc
    /\ OnlyMandatory(arg)
    /\ ret.ok
    /\ ret.v[1].base.vm_type = 1
    /\ ret.v[1].kernel.memory_regions[1].map_type = "MapIdentical"
    /\ ret.v[1].kernel.bios_path = None
    /\ ret.v[1].devices.interrupt_mode = "NoIrq"

(***************************************************************************)
(* C7.  The default-constructed aggregate and sub-configs: id 0, empty     *)
(* name, vm_type 0, cpu_num 0, entry_point 0, empty kernel_path,           *)
(* kernel_load_addr 0, every optional field None, the three sequences      *)
(* empty, interrupt_mode NoIrq; a default memory region has map_type       *)
(* MapAlloc and a default emulated device emu_type Dummy.                  *)
(***************************************************************************)
IsDefaultBase(b) ==
    /\ b.id = 0 /\ b.name = "" /\ b.vm_type = 0 /\ b.cpu_num = 0
    /\ b.phys_cpu_ids = None /\ b.phys_cpu_sets = None

IsDefaultKernel(k) ==
    /\ k.entry_point = 0 /\ k.kernel_path = "" /\ k.kernel_load_addr = 0
    /\ k.bios_path = None /\ k.bios_load_addr = None
    /\ k.dtb_path = None /\ k.dtb_load_addr = None
    /\ k.ramdisk_path = None /\ k.ramdisk_load_addr = None
    /\ k.image_location = None /\ k.cmdline = None /\ k.disk_path = None
    /\ k.memory_regions = <<>>

IsDefaultDevices(d) ==
    /\ d.emu_devices = <<>> /\ d.passthrough_devices = <<>>
    /\ d.interrupt_mode = "NoIrq"

C7_StructuralDefaults ==
    op = "default"
    => /\ arg = "AxVMCrateConfig"
          => IsDefaultBase(ret.base) /\ IsDefaultKernel(ret.kernel)
             /\ IsDefaultDevices(ret.devices)
       /\ arg = "VMBaseConfig" => IsDefaultBase(ret)
       /\ arg = "VMKernelConfig" => IsDefaultKernel(ret)
       /\ arg = "VMDevicesConfig" => IsDefaultDevices(ret)
       /\ arg = "VmMemConfig" => ret.map_type = "MapAlloc"
       /\ arg = "EmulatedDeviceConfig" => ret.emu_type = "Dummy"

C7_Witness ==
    /\ op = "default"
    /\ arg = "AxVMCrateConfig"
    /\ ret.base.vm_type = 0
    /\ ret.kernel.memory_regions = <<>>
    /\ ret.devices.interrupt_mode = "NoIrq"

(***************************************************************************)
(* C8.  from_usize gives back every variant from its code; usize::from     *)
(* gives HostVM 0, RTOS 1, Linux 2 and VMType::from gives the variant      *)
(* back; distinct variants have distinct codes.                            *)
(***************************************************************************)
C8_CodeRoundTrip ==
    /\ op = "from_usize"
       => \A v \in EmulatedDeviceTypeVariants :
             arg = EmulatedDeviceTypeDiscriminant(v) => ret = v
    /\ op = "usize_from_VMType"
       => /\ ret = (CASE arg = "VMTHostVM" -> 0 [] arg = "VMTRTOS" -> 1
                      [] arg = "VMTLinux" -> 2)
          /\ VMType_from(ret).v = arg
    /\ op = "VMType_from"
       => \A t \in VMTypeVariants : arg = usize_from_VMType(t) => ret = t
    /\ \A v, w \in EmulatedDeviceTypeVariants :
          v # w => EmulatedDeviceTypeDiscriminant(v) # EmulatedDeviceTypeDiscriminant(w)
    /\ \A t, u \in VMTypeVariants : t # u => usize_from_VMType(t) # usize_from_VMType(u)

C8_Witness ==
    /\ op = "from_usize"
    /\ arg = EmulatedDeviceTypeDiscriminant("GPPTDistributor")
    /\ ret = "GPPTDistributor"
    /\ log = <<>>

(***************************************************************************)
(* C9.  VMType::from returns VMTRTOS for every n outside {0,1,2} and       *)
(* from_usize returns Dummy for every n that is not a defined code, also   *)
(* above 0xFF; the fallback emits one warning, a defined code none, and    *)
(* the conversions always return a variant.                                *)
(***************************************************************************)
C9_TotalWithFallback ==
    /\ op = "VMType_from"
       => /\ ret \in VMTypeVariants
          /\ arg \notin {0, 1, 2} => ret = "VMTRTOS" /\ log = <<Warn("UnknownVmType")>>
          /\ arg \in {0, 1, 2} => log = <<>>
    /\ op = "from_usize"
       => /\ ret \in EmulatedDeviceTypeVariants
          /\ arg \notin DefinedEmuCodes => ret = "Dummy" /\ log = <<Warn("UnknownEmuType")>>
          /\ arg \in DefinedEmuCodes => log = <<>>

\* 0x121 is 0x21, GPPTDistributor's code, plus 256.
C9_Witness ==
    /\ op = "from_usize"
    /\ arg = 289
    /\ ret = "Dummy"
    /\ Len(log) = 1

(***************************************************************************)
(* C10.  removable() is true exactly for InterruptController,              *)
(* GPPTRedistributor, VirtioBlk, VirtioNet and VirtioConsole, and false    *)
(* for Dummy, Console, IVCChannel, GPPTDistributor and GPPTITS.            *)
(***************************************************************************)
C10_RemovablePartition ==
    op = "removable"
    => /\ arg \in {"InterruptController", "GPPTRedistributor", "VirtioBlk",
                   "VirtioNet", "VirtioConsole"} => ret = TRUE
       /\ arg \in {"Dummy", "Console", "IVCChannel", "GPPTDistributor", "GPPTITS"}
             => ret = FALSE
       /\ arg \in EmulatedDeviceTypeVariants

C10_Witness ==
    /\ op = "removable"
    /\ arg = "GPPTDistributor"
    /\ ret = FALSE

(***************************************************************************)
(* C11.  On every successful parse each sequence field is as long as the   *)
(* document's array and in its order, and each tuple is decoded by         *)
(* position: a memory region [a,b,c,d] is {gpa a, size b, flags c,         *)
(* map_type the variant of code d}, an emulated device [n,a,l,i,t,cfg] is  *)
(* {name n, base_gpa a, length l, irq_id i, emu_type the variant of code   *)
(* t, cfg_list cfg}, a passthrough device [n,g,h,l,i] is {name n,          *)
(* base_gpa g, base_hpa h, length l, irq_id i}; the scalars are unchanged. *)
(***************************************************************************)
\* The integers of a TOML array of integers, in order.
IntsOf(x) == [j \in 1..Len(x.a) |-> x.a[j].i]

C11_PositionalDecoding ==
    (op = "from_toml" /\ ret.ok)
    => LET cfg == ret.v[1]
           regions == arg.kernel.f.memory_regions.a
           emus == arg.devices.f.emu_devices.a
           pts == arg.devices.f.passthrough_devices.a
       IN /\ Len(cfg.kernel.memory_regions) = Len(regions)
          /\ \A k \in 1..Len(regions) :
                LET r == cfg.kernel.memory_regions[k] IN
                /\ r.gpa = regions[k].a[1].i
                /\ r.size = regions[k].a[2].i
                /\ r.flags = regions[k].a[3].i
                /\ r.map_type \in VmMemMappingTypeVariants
                /\ VmMemMappingTypeDiscriminant(r.map_type) = regions[k].a[4].i
          /\ Len(cfg.devices.emu_devices) = Len(emus)
          /\ \A k \in 1..Len(emus) :
                LET e == cfg.devices.emu_devices[k] IN
                /\ e.name = emus[k].a[1].s
                /\ e.base_gpa = emus[k].a[2].i
                /\ e.length = emus[k].a[3].i
                /\ e.irq_id = emus[k].a[4].i
                /\ e.emu_type \in EmulatedDeviceTypeVariants
                /\ EmulatedDeviceTypeDiscriminant(e.emu_type) = emus[k].a[5].i
                /\ e.cfg_list = IntsOf(emus[k].a[6])
          /\ Len(cfg.devices.passthrough_devices) = Len(pts)
          /\ \A k \in 1..Len(pts) :
                LET p == cfg.devices.passthrough_devices[k] IN
                /\ p.name = pts[k].a[1].s
                /\ p.base_gpa = pts[k].a[2].i
                /\ p.base_hpa = pts[k].a[3].i
                /\ p.length = pts[k].a[4].i
                /\ p.irq_id = pts[k].a[5].i
          /\ \A key \in {"phys_cpu_ids", "phys_cpu_sets"} :
                arg.base.f[key].t = "arr" => cfg.base[key] = Some(IntsOf(arg.base.f[key]))

\* The example document: one identical-mapped region, the emulated devices
\* of codes 0x21 and 0x22 in the document's order, two passthrough devices.
C11_Witness ==
    /\ op = "from_toml"
    /\ arg = FullDoc
    /\ ret.ok
    /\ ret.v[1].kernel.memory_regions = <<[gpa |-> 32768, size |-> 32768, flags |-> 7,
                                           map_type |-> "MapIdentical"]>>
    /\ Len(ret.v[1].devices.emu_devices) = 2
    /\ ret.v[1].devices.emu_devices[1].emu_type = "GPPTDistributor"
    /\ ret.v[1].devices.emu_devices[2].name = "dev3"
    /\ ret.v[1].devices.passthrough_devices[2].base_hpa = 2304

(***************************************************************************)
(* C12.  get_vm_config_template returns, for every combination of          *)
(* arguments (none is validated: an empty kernel_path and cpu_num = 0 are  *)
(* accepted), an aggregate whose id, name, vm_type, cpu_num, entry_point,  *)
(* kernel_path, kernel_load_addr, image_location and cmdline are the       *)
(* arguments, whose phys_cpu_ids is 0,1,...,cpu_num-1, whose phys_cpu_sets *)
(* is None, and whose other fields are the structural defaults.            *)
(***************************************************************************)
C12_TemplateFields ==
    op = "get_vm_config_template"
    => /\ arg \in BuilderArgs
       /\ ret.base.id = arg.id
       /\ ret.base.name = arg.name
       /\ ret.base.vm_type = arg.vm_type
       /\ ret.base.cpu_num = arg.cpu_num
       /\ ret.kernel.entry_point = arg.entry_point
       /\ ret.kernel.kernel_path = arg.kernel_path
       /\ ret.kernel.kernel_load_addr = arg.kernel_load_addr
       /\ ret.kernel.image_location = Some(arg.image_location)
       /\ ret.kernel.cmdline = arg.cmdline
       /\ Len(ret.base.phys_cpu_ids) = 1
       /\ Len(ret.base.phys_cpu_ids[1]) = arg.cpu_num
       /\ \A k \in 1..arg.cpu_num : ret.base.phys_cpu_ids[1][k] = k - 1
       /\ ret.base.phys_cpu_sets = None
       /\ \A key \in {"bios_path", "bios_load_addr", "dtb_path", "dtb_load_addr",
                      "ramdisk_path", "ramdisk_load_addr", "disk_path"} :
             ret.kernel[key] = None
       /\ ret.kernel.memory_regions = <<>>
       /\ ret.devices.emu_devices = <<>>
       /\ ret.devices.passthrough_devices = <<>>
       /\ ret.devices.interrupt_mode = "NoIrq"

\* The builder called with an empty kernel_path and no CPU.
C12_Witness ==
    /\ op = "get_vm_config_template"
    /\ arg.kernel_path = ""
    /\ arg.cpu_num = 0
    /\ ret.base.phys_cpu_ids = Some(<<>>)
    /\ ret.kernel.kernel_path = ""

\* The builder called with the largest cpu_num drawn.
C12_WitnessCpus ==
    /\ op = "get_vm_config_template"
    /\ arg.cpu_num = MaxCpu
    /\ Len(ret.base.phys_cpu_ids[1]) = MaxCpu
    /\ ret.base.phys_cpu_ids[1][MaxCpu] = MaxCpu - 1


(***************************************************************************)
(* C13.  base.vm_type is carried as the raw integer: for every             *)
(* non-negative code n written as base.vm_type in an otherwise valid       *)
(* document, also n outside {0,1,2}, the parse succeeds and the            *)
(* aggregate's base.vm_type is n; an undefined code is neither rejected    *)
(* nor replaced by the default.                                            *)
(***************************************************************************)
\* The document d with base.vm_type replaced by the defined code 1.
WithDefinedVmType(d) == [d EXCEPT !.base.f.vm_type = TInt(1)]

C13_VmTypeRaw ==
    (/\ op = "from_toml"
     /\ arg.base.f.vm_type.t = "int"
     /\ arg.base.f.vm_type.i >= 0
     /\ from_toml(WithDefinedVmType(arg)).ret.ok)
    => /\ ret.ok
       /\ ret.v[1].base.vm_type = arg.base.f.vm_type.i

\* The example document with the undefined code 999.
C13_Witness ==
    /\ op = "from_toml"
    /\ arg = [FullDoc EXCEPT !.base.f.vm_type = TInt(999)]
    /\ ret.ok
    /\ ret.v[1].base.vm_type = 999
    /\ log = <<>>


(***************************************************************************)
(* C14.  from_toml cross-validates nothing: whether a structurally valid   *)
(* document parses does not depend on the length of base.phys_cpu_sets or  *)
(* base.phys_cpu_ids relative to base.cpu_num, nor on overlapping memory   *)
(* regions or device ranges, nor on device names being unique.  A list of  *)
(* non-negative integers of any length is accepted for the two CPU lists   *)
(* (so cpu_num = 2 with phys_cpu_sets of length 1 or 3 parses), and a      *)
(* sequence of tuples parses exactly when each tuple parses on its own.    *)
(***************************************************************************)
\* x is a TOML array of non-negative integers.
IsUsizeArray(x) ==
    /\ x.t = "arr"
    /\ \A j \in 1..Len(x.a) : x.a[j].t = "int" /\ x.a[j].i >= 0

\* The document d with the value v at path p.
With(d, p, v) == [d EXCEPT ![p[1]].f[p[2]] = v]

SequencePaths ==
    {<<"kernel", "memory_regions">>, <<"devices", "emu_devices">>,
     <<"devices", "passthrough_devices">>}

C14_WitnessShort ==
    /\ op = "from_toml"
    /\ arg.base.f.cpu_num = TInt(2)
    /\ Len(arg.base.f.phys_cpu_sets.a) = 1
    /\ ret.ok
    /\ Len(ret.v[1].base.phys_cpu_sets[1]) = 1

\* Two memory regions over the same guest range.
C14_WitnessOverlap ==
    /\ op = "from_toml"
    /\ Len(arg.kernel.f.memory_regions.a) = 2
    /\ ret.ok
    /\ ret.v[1].kernel.memory_regions[1].gpa = ret.v[1].kernel.memory_regions[2].gpa

\* Two emulated devices of one name over the same range.
C14_WitnessSameName ==
    /\ op = "from_toml"
    /\ ret.ok
    /\ Len(ret.v[1].devices.emu_devices) = 2
    /\ ret.v[1].devices.emu_devices[1].name = ret.v[1].devices.emu_devices[2].name
    /\ ret.v[1].devices.emu_devices[1].base_gpa = ret.v[1].devices.emu_devices[2].base_gpa


(***************************************************************************)
(* C15.  The check operation ends in exactly one of two outcomes: if the   *)
(* file exists, is readable and parses, it prints that the file is valid   *)
(* and the parsed structure and ends without a failure status; otherwise   *)
(* (file missing, unreadable, or not parsing) it prints an error on the    *)
(* error stream, prints no confirmation and ends with a non-zero status.   *)
(* The steps run in the order existence check, read, parse, and no step    *)
(* runs after an earlier one failed.                                       *)
(***************************************************************************)
\* s is an initial part of the sequence t.
IsPrefix(s, t) == Len(s) <= Len(t) /\ \A k \in 1..Len(s) : s[k] = t[k]

Ended == proc.pc \in {"returned", "exited", "panicked"}

C15_CheckOutcomes ==
    op = "check"
    => /\ IsPrefix(proc.steps, <<"exists", "read", "parse">>)
       /\ Len(proc.steps) >= 2 => arg.state # "missing"
       /\ Len(proc.steps) >= 3 => arg.state = "ok"
       /\ ~Ended => proc.exit = None /\ proc.out = <<>> /\ proc.errs = <<>>
       /\ Ended =>
             IF arg.state = "ok" /\ from_toml(arg.content).ret.ok
             THEN /\ proc.pc = "returned"
                  /\ proc.exit = Some(0)
                  /\ proc.out = <<[line |-> "Config file is valid.", cfg |-> None],
                                  [line |-> "Config:",
                                   cfg |-> Some(from_toml(arg.content).ret.v[1])]>>
                  /\ proc.errs = <<>>
             ELSE /\ proc.pc = "exited"
                  /\ proc.exit # None /\ proc.exit[1] # 0
                  /\ Len(proc.errs) = 1
                  /\ proc.out = <<>>
                  /\ proc.steps = CASE arg.state = "missing"    -> <<"exists">>
                                    [] arg.state = "unreadable" -> <<"exists", "read">>
                                    [] OTHER -> <<"exists", "read", "parse">>

\* A missing file: the check ended after the existence check alone.
C15_Witness ==
    /\ op = "check"
    /\ arg.state = "missing"
    /\ proc.pc = "exited"
    /\ proc.steps = <<"exists">>
    /\ proc.exit = Some(1)

\* A readable file holding the example document: the check confirmed it.
C15_WitnessValid ==
    /\ op = "check"
    /\ arg = [state |-> "ok", content |-> FullDoc]
    /\ proc.pc = "returned"
    /\ Len(proc.out) = 2
    /\ proc.exit = Some(0)

\* A readable file that does not parse.
C15_WitnessInvalid ==
    /\ op = "check"
    /\ arg.state = "ok"
    /\ proc.pc = "exited"
    /\ proc.steps = <<"exists", "read", "parse">>
    /\ log = <<Warn("ConfigTomlParseError")>>


(***************************************************************************)
(* C17.  The serialised form of an Interrupt Mode is the first listed      *)
(* spelling of its variant (NoIrq "no_irq", Emulated "emu", Passthrough    *)
(* "passthrough"), and parsing the serialised form of a variant m yields m *)
(* again.                                                                  *)
(***************************************************************************)
C17_InterruptModeRoundTrip ==
    op = "serialize_VMInterruptMode"
    => /\ arg = "NoIrq" => ret = TStr("no_irq")
       /\ arg = "Emulated" => ret = TStr("emu")
       /\ arg = "Passthrough" => ret = TStr("passthrough")
       /\ De_VMInterruptMode(ret) = Ok(arg)

C17_Witness ==
    /\ op = "serialize_VMInterruptMode"
    /\ arg = "Emulated"
    /\ ret.s = "emu"
    /\ De_VMInterruptMode(ret) = Ok("Emulated")


(***************************************************************************)
(* C16.  In the generate operation success prints a confirmation, and      *)
(* every failure on the path (the kernel path cannot be resolved when      *)
(* image_location is "memory", the template cannot be serialised, the      *)
(* current directory cannot be determined, the target file cannot be       *)
(* written) is reported by the tool on the error stream and followed by    *)
(* the end of the process with a non-zero status, with no confirmation     *)
(* printed and without an unhandled abort.                                 *)
(***************************************************************************)
\* Some step of the ended generate run failed: the kernel path could not be
\* resolved, the run ended in the serialisation, the current directory was
\* needed and could not be determined, or the file could not be written.
GenerateFailed ==
    \/ arg.image_location = "memory" /\ arg.canonicalize # "ok"
    \/ proc.steps[Len(proc.steps)] = "serialize"
    \/ arg.output = None /\ ~arg.cwd_ok
    \/ ~arg.write_ok

C16_GenerateFailuresReported ==
    (op = "generate" /\ Ended)
    => IF GenerateFailed
       THEN /\ proc.pc = "exited"
            /\ proc.exit # None /\ proc.exit[1] # 0
            /\ Len(proc.errs) = 1
            /\ proc.out = <<>>
       ELSE /\ proc.pc = "returned"
            /\ Len(proc.out) = 1
            /\ proc.errs = <<>>


\* What the generate operation does: the failure to write is the only one
\* the tool reports itself; the other three end the run in a panic.
Gen_PanicsOnUnwrap ==
    (op = "generate" /\ Ended)
    => /\ proc.pc = "panicked"
          <=> \/ arg.image_location = "memory" /\ arg.canonicalize # "ok"
              \/ proc.steps[Len(proc.steps)] = "serialize"
              \/ proc.steps[Len(proc.steps)] = "target"
       /\ proc.pc = "exited" <=> (proc.steps[Len(proc.steps)] = "write" /\ ~arg.write_ok)
       /\ proc.pc = "returned" <=> proc.out # <<>>


(***************************************************************************)
(* C18.  Every failing from_toml call has emitted a parse-failure          *)
(* diagnostic (a warning) by the time it returns the error, and a          *)
(* successful call emits none; a diagnostic for an unknown numeric code,   *)
(* if one is emitted during a parse, does not make that parse fail.        *)
(* from_toml is one step of the model, so "before it returns" reads: in    *)
(* every state that shows the error, the log already holds the warning.    *)
(***************************************************************************)
UnknownCodeDiagnostics == {Warn("UnknownVmType"), Warn("UnknownEmuType")}

\* The diagnostics in the log.
Logged == {log[k] : k \in 1..Len(log)}

C18_DiagnosticOnFailure ==
    /\ op = "from_toml"
       => /\ ~ret.ok => log = <<Warn("ConfigTomlParseError")>>
          /\ ret.ok => Warn("ConfigTomlParseError") \notin Logged
          /\ Logged \cap UnknownCodeDiagnostics # {} => ret.ok
    /\ (op = "check" /\ Len(proc.steps) = 3)
       => /\ proc.pc = "exited" => log = <<Warn("ConfigTomlParseError")>>
          /\ proc.pc = "returned" => log = <<>>

\* A text that is no TOML: the call failed and the warning is in the log.
C18_Witness ==
    /\ op = "from_toml"
    /\ ~arg.syntax
    /\ ~ret.ok
    /\ Logged = {Warn("ConfigTomlParseError")}

\* A successful call: nothing logged.
C18_WitnessSuccess ==
    /\ op = "from_toml"
    /\ arg = MinimalDoc
    /\ ret.ok
    /\ Logged = {}


(***************************************************************************)
(* C19.  Generate-then-check round trip.  As claimed: for every argument   *)
(* combination get_vm_config_template accepts, serialising the returned    *)
(* aggregate and parsing the text with from_toml succeeds and yields an    *)
(* aggregate equal field by field to the original, so that a generated     *)
(* template is always accepted by check.                                   *)
(***************************************************************************)
\* Every outcome of serialising cfg is a text that from_toml parses to cfg.
RoundTrips(cfg) ==
    \A o \in toml_to_string(cfg) :
       /\ o.ok
       /\ from_toml(o.v[1]).ret = Ok(cfg)
       /\ from_toml(o.v[1]).log = <<>>

\* No outcome of serialising cfg is a text that from_toml accepts.
NeverRoundTrips(cfg) ==
    \A o \in toml_to_string(cfg) : ~o.ok \/ ~from_toml(o.v[1]).ret.ok

C19_Original ==
    /\ op = "get_vm_config_template" => RoundTrips(ret)
    /\ (op = "generate" /\ proc.pc = "returned")
       => from_toml(proc.written[1]).ret = Ok(proc.template[1])

(***************************************************************************)
(* C19, amended.  The round trip holds for the argument combinations whose *)
(* integer arguments (id, vm_type, cpu_num, entry_point, kernel_load_addr) *)
(* are at most i64::MAX, the largest integer of a TOML document, also for  *)
(* cpu_num = 0, cmdline = None, the empty sequences and NoIrq; with a      *)
(* larger integer argument the template is not serialised or is written    *)
(* as a text from_toml rejects.                                            *)
(***************************************************************************)
ArgIntegers(a) == {a.id, a.vm_type, a.cpu_num, a.entry_point, a.kernel_load_addr}

InTomlRange(a) == \A n \in ArgIntegers(a) : n <= MaxTomlInt

C19_RoundTripInRange ==
    /\ op = "get_vm_config_template"
       => IF InTomlRange(arg) THEN RoundTrips(ret) ELSE NeverRoundTrips(ret)
    /\ (op = "generate" /\ proc.pc = "returned")
       => IF InTomlRange(arg)
          THEN from_toml(proc.written[1]).ret = Ok(proc.template[1])
          ELSE ~from_toml(proc.written[1]).ret.ok

\* A template of no CPU and no command line, its entry point the largest
\* TOML integer.
C19_Witness ==
    /\ op = "get_vm_config_template"
    /\ arg.cpu_num = 0
    /\ arg.cmdline = None
    /\ arg.entry_point = MaxTomlInt
    /\ RoundTrips(ret)
    /\ ret.base.phys_cpu_ids = Some(<<>>)

\* A generate run that wrote its file, which check accepts.
C19_WitnessGenerate ==
    /\ op = "generate"
    /\ proc.pc = "returned"
    /\ arg.image_location = "memory"
    /\ from_toml(proc.written[1]).ret = Ok(proc.template[1])
    /\ proc.template[1].kernel.kernel_path = "/abs/k.bin"
    /\ proc.template[1].base.name = "GuestVM-aarch64"

\* A generate run that confirmed a file check rejects.
C19_WitnessRejected ==
    /\ op = "generate"
    /\ proc.pc = "returned"
    /\ arg.entry_point > MaxTomlInt
    /\ ~from_toml(proc.written[1]).ret.ok


(***************************************************************************)
(* C20.  The two VM-type defaults disagree: the raw vm_type of the         *)
(* structurally default Base Config is 0, VMType::from(0) is VMTHostVM,    *)
(* and VMType::default() is VMTRTOS, of code 1; so decoding the default    *)
(* Base Config's vm_type never yields the default VMType, while decoding   *)
(* any undefined code does.                                                *)
(***************************************************************************)
C20_VmTypeDefaultsDisagree ==
    /\ (op = "default" /\ arg = "VMBaseConfig")
       => /\ ret.vm_type = 0
          /\ VMType_from(ret.vm_type).v = "VMTHostVM"
          /\ VMType_from(ret.vm_type).v # Default("VMType")
    /\ (op = "default" /\ arg = "VMType")
       => /\ ret = "VMTRTOS"
          /\ usize_from_VMType(ret) = 1
          /\ ret # VMType_from(VMBaseConfig_default.vm_type).v
    /\ op = "VMType_from"
       => /\ arg = VMBaseConfig_default.vm_type => ret = "VMTHostVM" /\ ret # Default("VMType")
          /\ arg \notin {0, 1, 2} => ret = Default("VMType")

\* The default Base Config, whose vm_type decodes to VMTHostVM.
C20_Witness ==
    /\ op = "default"
    /\ arg = "VMBaseConfig"
    /\ ret.vm_type = 0
    /\ VMType_from(ret.vm_type).v = "VMTHostVM"
    /\ Default("VMType") = "VMTRTOS"

\* An undefined code decoded to the default VMType.
C20_WitnessUndefined ==
    /\ op = "VMType_from"
    /\ arg = 3
    /\ ret = Default("VMType")
    /\ ret # VMType_from(0).v


====
